---- MODULE Spec2Model ----
(***************************************************************************)
(* CacheManager (src/unnamed/part_000): eight node-cache instances, one    *)
(* per cache type, with hit/miss/set/delete/flush accounting, pattern      *)
(* invalidation, cache warming and statistics.                             *)
(*                                                                         *)
(* The NodeCache_* operators model the node-cache 5.x methods that         *)
(* CacheManager calls (maxKeys exists from 5.0.0 on): set throws           *)
(* ECACHEFULL when stats.keys >= maxKeys, get deletes an entry whose       *)
(* expiry time is before Date.now(), keys() lists every stored key,        *)
(* flushAll() empties the store and re-arms the check timer, close() only  *)
(* stops the check timer.  node-cache emits no 'get' event, so the         *)
(* handler registered at part_000:87-89 never runs.                        *)
(*                                                                         *)
(* Time is Date.now() in milliseconds; TTLs are seconds.  Keys and         *)
(* patterns are strings, modelled as sequences of one-character strings.   *)
(* JavaScript values are records [ty, n].                                  *)
(***************************************************************************)
EXTENDS Integers, Sequences, FiniteSets, TLC

VARIABLES caches, hitStats, now, last, warm, gets, nops, callers, db, reqs

vars == <<caches, hitStats, now, last, warm, gets, nops, callers, db, reqs>>

-----------------------------------------------------------------------------
(* Bounds of the model *)

\* cap on the modelled maxKeys of a cache
MaxKeysCap == 2
\* cap on the modelled stdTTL (seconds) of a cache
MaxStdTTL == 2
\* the clock stops advancing at this many milliseconds
MaxNow == 3000
\* number of CacheManager operations in one behaviour
MaxOps == 3
\* number of concurrently dispatched incrementRateLimit callers
MaxCallers == 3
\* largest hits / misses counter value drawn for getStats
MaxCount == 9
\* longest argument string passed to a key template
MaxArgLen == 2
\* number of HTTP requests in one behaviour
MaxRequests == 3
\* number of HTTP requests in one behaviour of the session handlers: a
\* startSession and three requests for its session
MaxSessionRequests == 4
\* cap on ipFilter's request limit (1000 in the source)
MaxRequestLimit == 3
\* cap on ipFilter's counting window in seconds (3600 in the source)
MaxWindow == 1
\* number of requests one client sends in one behaviour
MaxHistory == 7
\* number of Database.connect() calls in one behaviour
MaxConnects == 2
\* number of WalletConnection calls in one behaviour
MaxCalls == 2
\* number of times the session lifetime passes in one behaviour
MaxDays == 1

Min(a, b) == IF a <= b THEN a ELSE b

-----------------------------------------------------------------------------
(* JavaScript values *)

Undefined == [ty |-> "undefined", n |-> 0]
Null == [ty |-> "null", n |-> 0]
Num(i) == [ty |-> "number", n |-> i]
Bool(b) == [ty |-> "boolean", n |-> IF b THEN 1 ELSE 0]

\* ToBoolean(v): what `v ? a : b`, `v || b`, `if (v)` test
Truthy(v) ==
    CASE v.ty \in {"undefined", "null"} -> FALSE
      [] v.ty \in {"number", "boolean", "string"} -> v.n # 0
      [] OTHER -> TRUE

\* key.includes(pattern)
includes(key, pattern) ==
    \E i \in 0..(Len(key) - Len(pattern)) :
        SubSeq(key, i + 1, i + Len(pattern)) = pattern

-----------------------------------------------------------------------------
(* Configuration: constructor, part_000:5-71 *)

CacheTypes ==
    {"players", "leaderboards", "statistics", "achievements",
     "sessions", "api", "blockchain", "rateLimit"}

\* the options object literals passed to new NodeCache(...)
cacheOptions ==
    [players      |-> [stdTTL |-> 300,  checkperiod |-> 60,  maxKeys |-> 10000],
     leaderboards |-> [stdTTL |-> 600,  checkperiod |-> 120, maxKeys |-> 100],
     statistics   |-> [stdTTL |-> 900,  checkperiod |-> 180, maxKeys |-> 200],
     achievements |-> [stdTTL |-> 1800, checkperiod |-> 300, maxKeys |-> 1000],
     sessions     |-> [stdTTL |-> 180,  checkperiod |-> 30,  maxKeys |-> 5000],
     api          |-> [stdTTL |-> 120,  checkperiod |-> 30,  maxKeys |-> 2000],
     blockchain   |-> [stdTTL |-> 1200, checkperiod |-> 240, maxKeys |-> 500],
     rateLimit    |-> [stdTTL |-> 3600, checkperiod |-> 600, maxKeys |-> 50000]]

\* mutant of maxKeys: the maxKeys option left out (node-cache's default, -1,
\* is no limit)
maxKeysUnset(cacheType) == -1

\* options.maxKeys of a cache, scaled down to the model's cap
maxKeys(cacheType) == Min(cacheOptions[cacheType].maxKeys, MaxKeysCap)

\* options.stdTTL of a cache (seconds), scaled down to the model's cap
stdTTL(cacheType) == Min(cacheOptions[cacheType].stdTTL, MaxStdTTL)

\* names inherited from Object.prototype: this.caches[name] is truthy for
\* them although name is no cache type
InheritedNames == {"constructor"}

\* names for which this.caches[name] is undefined
AbsentNames == {"unknown"}

\* this.caches[cacheType], as the guard `!this.caches[cacheType]` sees it
cachesLookup(cacheType) ==
    IF cacheType \in CacheTypes THEN "NodeCache"
    ELSE IF cacheType \in InheritedNames THEN "inherited"
    ELSE "undefined"

-----------------------------------------------------------------------------
(* Input sets *)

\* `rate:${identifier}`
rateKey(identifier) == <<"r", "a", "t", "e", ":">> \o identifier

Identifiers == {<<"a">>}

Keys == {<<"a">>, <<"a", "b">>}

AllKeys == Keys \cup {rateKey(i) : i \in Identifiers}

\* `player:${walletAddress}`
playerKey(walletAddress) == <<"p", "l", "a", "y", "e", "r", ":">> \o walletAddress

\* `session:${sessionId}`
sessionKey(sessionId) == <<"s", "e", "s", "s", "i", "o", "n", ":">> \o sessionId

\* `requests:${clientIP}`
requestKey(clientIP) ==
    <<"r", "e", "q", "u", "e", "s", "t", "s", ":">> \o clientIP

\* `leaderboard:${type}:${limit}`
leaderboardKey(type, limit) ==
    <<"l", "e", "a", "d", "e", "r", "b", "o", "a", "r", "d", ":">>
        \o type \o <<":">> \o limit

\* `achievements:${walletAddress}`
achievementsKey(walletAddress) ==
    <<"a", "c", "h", "i", "e", "v", "e", "m", "e", "n", "t", "s", ":">> \o walletAddress

\* `api:${endpoint}:${params}`
apiKey(endpoint, params) == <<"a", "p", "i", ":">> \o endpoint \o <<":">> \o params

\* `blockchain:${key}`
blockchainKey(key) ==
    <<"b", "l", "o", "c", "k", "c", "h", "a", "i", "n", ":">> \o key

\* the wrappers that compose a key, with the number of arguments that go
\* into it
Templates ==
    [player |-> 1, leaderboard |-> 2, session |-> 1, achievements |-> 1,
     api |-> 2, blockchain |-> 1, rate |-> 1]

\* the key a wrapper composes from its arguments
composedKey(template, args) ==
    CASE template = "player" -> playerKey(args[1])
      [] template = "leaderboard" -> leaderboardKey(args[1], args[2])
      [] template = "session" -> sessionKey(args[1])
      [] template = "achievements" -> achievementsKey(args[1])
      [] template = "api" -> apiKey(args[1], args[2])
      [] template = "blockchain" -> blockchainKey(args[1])
      [] template = "rate" -> rateKey(args[1])

\* the characters of the modelled arguments: a letter and the separator
ArgChars == {"a", ":"}

\* the argument strings: 1 to MaxArgLen characters
ArgStrings == UNION {[1..n -> ArgChars] : n \in 1..MaxArgLen}

\* `stats:${walletAddress}`
statsKey(walletAddress) == <<"s", "t", "a", "t", "s", ":">> \o walletAddress

Wallets == {<<"w">>}

SessionIds == {<<"s">>}

ClientIPs == {<<"i">>}

AchievementIds == {<<"x">>}

\* every key a modelled caller stores under
StoreKeys ==
    AllKeys \cup {playerKey(w) : w \in Wallets}
            \cup {sessionKey(i) : i \in SessionIds}
            \cup {achievementsKey(w) : w \in Wallets}
            \cup {statsKey(w) : w \in Wallets}
            \cup {rateKey(requestKey(ip)) : ip \in ClientIPs}

Patterns == {<<"a">>, <<"b">>, <<"b", "a">>}

Values == {Num(1), Num(2)}

\* values of every kind a caller can pass: undefined, null, falsy and truthy
JsValues == {Undefined, Null, Num(0), Num(1)}

\* ttl arguments: omitted (null), 1 second
TTLs == {Null, Num(1)}

\* ttl arguments of every kind: omitted, 0, 1 second
AllTTLs == {Null, Num(0), Num(1)}

\* cache types the operations are applied to
ActiveTypes == {"leaderboards", "rateLimit"}

\* cache types the generic set is applied to (rateLimit is written through
\* incrementRateLimit)
SetTypes == {"leaderboards"}

\* the keys get and del are applied to on a cache type
KeysOf(cacheType) ==
    IF cacheType = "rateLimit" THEN {rateKey(i) : i \in Identifiers} ELSE AllKeys

\* names that are no cache type
OtherNames == InheritedNames \cup AbsentNames

\* cache types whose warming is modelled
WarmTypes == {"leaderboards"}

TickSteps == {1000}

-----------------------------------------------------------------------------
(* node-cache: one NodeCache instance is                                   *)
(*   [data  : key -> NoEntry or [v, t]   (t = expiry in ms, 0 = never),    *)
(*    keys  : stats.keys,                                                  *)
(*    timer : the checkperiod timer is armed]                              *)

NoEntry == [v |-> Undefined, t |-> -1]

newNodeCache ==
    [data |-> [k \in StoreKeys |-> NoEntry], keys |-> 0, timer |-> TRUE]

\* this.data[key] != null
stored(nc, key) == nc.data[key] # NoEntry

\* _wrap(value, ttl): the stored record, ttl already defaulted by set
NodeCache_wrap(value, ttl, cacheType, t) ==
    [v |-> value,
     t |-> IF ttl.ty = "number" /\ ttl.n = 0 THEN 0
           ELSE IF Truthy(ttl) THEN t + ttl.n * 1000
           ELSE IF stdTTL(cacheType) = 0 THEN 0
           ELSE t + stdTTL(cacheType) * 1000]

\* _unwrap(data): value.v != null ? value.v : null
NodeCache_unwrap(entry) ==
    IF entry.v.ty \in {"undefined", "null"} THEN Null ELSE entry.v

\* del(key): removes the key, whether expired or not; returns the count
NodeCache_del(nc, key) ==
    IF stored(nc, key)
    THEN [nc |-> [nc EXCEPT !.data[key] = NoEntry, !.keys = @ - 1], ret |-> 1]
    ELSE [nc |-> nc, ret |-> 0]

\* data.t !== 0 && data.t < Date.now()
expired(entry, t) == entry.t # 0 /\ entry.t < t

\* _check(key, data): deletes an expired entry (deleteOnExpire)
NodeCache_check(nc, key, t) ==
    IF expired(nc.data[key], t)
    THEN [nc |-> NodeCache_del(nc, key).nc, ret |-> FALSE]
    ELSE [nc |-> nc, ret |-> TRUE]

\* get(key): undefined on a missing or expired key
NodeCache_get(nc, key, t) ==
    IF stored(nc, key) /\ NodeCache_check(nc, key, t).ret
    THEN [nc |-> nc, ret |-> NodeCache_unwrap(nc.data[key])]
    ELSE [nc |-> IF stored(nc, key) THEN NodeCache_check(nc, key, t).nc ELSE nc,
          ret |-> Undefined]

\* mutant of NodeCache_set: a new key on a full cache evicts a stored key
\* to make room
NodeCache_setEvicting(nc, key, value, ttl, cacheType, t) ==
    LET full == maxKeys(cacheType) > -1 /\ nc.keys >= maxKeys(cacheType)
                    /\ ~stored(nc, key)
        room == IF full
                THEN NodeCache_del(nc, CHOOSE k \in StoreKeys : stored(nc, k)).nc
                ELSE nc
    IN  [nc |-> [room EXCEPT
                    !.data[key] =
                        NodeCache_wrap(value,
                                       IF ttl.ty \in {"undefined", "null"}
                                       THEN Num(stdTTL(cacheType)) ELSE ttl,
                                       cacheType, t),
                    !.keys = IF stored(room, key) THEN @ ELSE @ + 1],
          ret |-> Bool(TRUE), threw |-> ""]

\* set(key, value, ttl): throws ECACHEFULL when stats.keys >= maxKeys,
\* before it looks whether the key exists
NodeCache_set(nc, key, value, ttl, cacheType, t) ==
    IF maxKeys(cacheType) > -1 /\ nc.keys >= maxKeys(cacheType)
    THEN [nc |-> nc, ret |-> Undefined, threw |-> "ECACHEFULL"]
    ELSE [nc |-> [nc EXCEPT
                    !.data[key] =
                        NodeCache_wrap(value,
                                       IF ttl.ty \in {"undefined", "null"}
                                       THEN Num(stdTTL(cacheType)) ELSE ttl,
                                       cacheType, t),
                    !.keys = IF stored(nc, key) THEN @ ELSE @ + 1],
          ret |-> Bool(TRUE), threw |-> ""]

\* keys(): Object.keys(this.data), expired entries included
NodeCache_keys(nc) == {k \in StoreKeys : stored(nc, k)}

\* mutant of NodeCache_checkData: the sweep deletes nothing
\* (deleteOnExpire: false)
NodeCache_checkDataKeeps(nc, t) == nc

\* _checkData(): the periodic sweep, _check on every key
NodeCache_checkData(nc, t) ==
    [nc EXCEPT
        !.data = [k \in StoreKeys |->
                    IF stored(nc, k) /\ expired(nc.data[k], t)
                    THEN NoEntry ELSE nc.data[k]],
        !.keys = @ - Cardinality({k \in StoreKeys :
                                    stored(nc, k) /\ expired(nc.data[k], t)})]

\* flushAll(): empties data, zeroes stats, kills and re-arms the timer
NodeCache_flushAll(nc) ==
    [data |-> [k \in StoreKeys |-> NoEntry], keys |-> 0, timer |-> TRUE]

\* close(): _killCheckPeriod() only
NodeCache_close(nc) == [nc EXCEPT !.timer = FALSE]

-----------------------------------------------------------------------------
(* CacheManager.  The manager's state is m = [caches, hitStats]; every     *)
(* method is an operator from m (and the clock t) to                       *)
(* [m, ret, threw]: the state it leaves, the value it returns and the      *)
(* error it raises to its caller ("" when it returns normally).            *)

noStats == [hits |-> 0, misses |-> 0, sets |-> 0, deletes |-> 0, flushes |-> 0]

\* setupStatsTracking(): every counter of every cache type back to 0
setupStatsTracking == [c \in CacheTypes |-> noStats]

\* mutant of recordHit: the counter is raised by 2
recordHitTwice(m, cacheType, type) ==
    IF cacheType \in CacheTypes
    THEN [m EXCEPT !.hitStats[cacheType][type] = @ + 2]
    ELSE m

\* recordHit(cacheType, type)
recordHit(m, cacheType, type) ==
    IF cacheType \in CacheTypes
    THEN [m EXCEPT !.hitStats[cacheType][type] = @ + 1]
    ELSE m

returns(m, ret) == [m |-> m, ret |-> ret, threw |-> ""]

throws(m, error) == [m |-> m, ret |-> Undefined, threw |-> error]

\* mutant of get: a miss is returned without recordHit('misses')
getMissUncounted(m, cacheType, key, t) ==
    IF cachesLookup(cacheType) = "undefined" THEN returns(m, Null)
    ELSE IF cachesLookup(cacheType) = "inherited" THEN throws(m, "TypeError")
    ELSE LET g == NodeCache_get(m.caches[cacheType], key, t)
             m1 == [m EXCEPT !.caches[cacheType] = g.nc]
         IN  IF g.ret = Undefined
             THEN returns(m1, Null)
             ELSE returns(recordHit(m1, cacheType, "hits"), g.ret)

\* mutant of get: every lookup also counts as a hit, as a 'get' event
\* listener would make it
getCountsEveryLookup(m, cacheType, key, t) ==
    IF cachesLookup(cacheType) = "undefined" THEN returns(m, Null)
    ELSE IF cachesLookup(cacheType) = "inherited" THEN throws(m, "TypeError")
    ELSE LET g == NodeCache_get(m.caches[cacheType], key, t)
             m1 == recordHit([m EXCEPT !.caches[cacheType] = g.nc], cacheType, "hits")
         IN  IF g.ret = Undefined
             THEN returns(recordHit(m1, cacheType, "misses"), Null)
             ELSE returns(m1, g.ret)

\* get(cacheType, key)
get(m, cacheType, key, t) ==
    IF cachesLookup(cacheType) = "undefined" THEN returns(m, Null)
    ELSE IF cachesLookup(cacheType) = "inherited" THEN throws(m, "TypeError")
    ELSE LET g == NodeCache_get(m.caches[cacheType], key, t)
             m1 == [m EXCEPT !.caches[cacheType] = g.nc]
         IN  IF g.ret = Undefined
             THEN returns(recordHit(m1, cacheType, "misses"), Null)
             ELSE returns(recordHit(m1, cacheType, "hits"), g.ret)

\* mutant of set: a key that is already stored keeps its entry
setKeepsStored(m, cacheType, key, value, ttl, t) ==
    IF cachesLookup(cacheType) = "undefined" THEN returns(m, Bool(FALSE))
    ELSE IF cachesLookup(cacheType) = "inherited" THEN throws(m, "TypeError")
    ELSE LET s == NodeCache_set(m.caches[cacheType], key, value,
                                IF Truthy(ttl) THEN ttl ELSE Undefined,
                                cacheType, t)
             m1 == IF stored(m.caches[cacheType], key) THEN m
                   ELSE [m EXCEPT !.caches[cacheType] = s.nc]
         IN  IF s.threw # "" THEN throws(m, s.threw)
             ELSE returns(recordHit(m1, cacheType, "sets"), s.ret)

\* set(cacheType, key, value, ttl = null)
set(m, cacheType, key, value, ttl, t) ==
    IF cachesLookup(cacheType) = "undefined" THEN returns(m, Bool(FALSE))
    ELSE IF cachesLookup(cacheType) = "inherited" THEN throws(m, "TypeError")
    ELSE LET s == NodeCache_set(m.caches[cacheType], key, value,
                                IF Truthy(ttl) THEN ttl ELSE Undefined,
                                cacheType, t)
             m1 == [m EXCEPT !.caches[cacheType] = s.nc]
         IN  IF s.threw # "" THEN throws(m, s.threw)
             ELSE IF Truthy(s.ret)
                  THEN returns(recordHit(m1, cacheType, "sets"), s.ret)
                  ELSE returns(m1, s.ret)

\* mutant of del: recordHit('deletes') whatever NodeCache.del returns
delCountsAlways(m, cacheType, key) ==
    IF cachesLookup(cacheType) = "undefined" THEN returns(m, Num(0))
    ELSE IF cachesLookup(cacheType) = "inherited" THEN throws(m, "TypeError")
    ELSE LET d == NodeCache_del(m.caches[cacheType], key)
             m1 == [m EXCEPT !.caches[cacheType] = d.nc]
         IN  returns(recordHit(m1, cacheType, "deletes"), Num(d.ret))

\* del(cacheType, key)
del(m, cacheType, key) ==
    IF cachesLookup(cacheType) = "undefined" THEN returns(m, Num(0))
    ELSE IF cachesLookup(cacheType) = "inherited" THEN throws(m, "TypeError")
    ELSE LET d == NodeCache_del(m.caches[cacheType], key)
             m1 == [m EXCEPT !.caches[cacheType] = d.nc]
         IN  IF d.ret > 0
             THEN returns(recordHit(m1, cacheType, "deletes"), Num(d.ret))
             ELSE returns(m1, Num(d.ret))

\* mutant of invalidateLeaderboards: flushAll() on every cache
invalidateLeaderboardsAll(m) ==
    returns(recordHit([m EXCEPT !.caches = [c \in CacheTypes |->
                                               NodeCache_flushAll(m.caches[c])]],
                      "leaderboards", "flushes"),
            Undefined)

\* invalidateLeaderboards()
invalidateLeaderboards(m) ==
    returns(recordHit([m EXCEPT !.caches["leaderboards"] = NodeCache_flushAll(@)],
                      "leaderboards", "flushes"),
            Undefined)

\* getRateLimit(identifier)
getRateLimit(m, identifier, t) == get(m, "rateLimit", rateKey(identifier), t)

\* setRateLimit(identifier, count, ttl)
setRateLimit(m, identifier, count, ttl, t) ==
    set(m, "rateLimit", rateKey(identifier), count, ttl, t)

\* mutant of incrementRateLimit: the count is read under the bare identifier,
\* not under `rate:${identifier}`
incrementRateLimitBareKey(m, identifier, ttl, t) ==
    LET g == get(m, "rateLimit", identifier, t)
        current == IF Truthy(g.ret) THEN g.ret ELSE Num(0)
    IN  setRateLimit(g.m, identifier, Num(current.n + 1), ttl, t)

\* incrementRateLimit(identifier, ttl): one synchronous call, get then set
incrementRateLimit(m, identifier, ttl, t) ==
    LET g == getRateLimit(m, identifier, t)
        current == IF Truthy(g.ret) THEN g.ret ELSE Num(0)
    IN  setRateLimit(g.m, identifier, Num(current.n + 1), ttl, t)

\* mutant of matchingKeys: key.startsWith(pattern)
matchingKeysPrefix(nc, pattern) ==
    {k \in NodeCache_keys(nc) :
        Len(pattern) <= Len(k) /\ SubSeq(k, 1, Len(pattern)) = pattern}

\* the keys invalidatePattern deletes: keys().filter(key => key.includes(pattern))
matchingKeys(nc, pattern) == {k \in NodeCache_keys(nc) : includes(k, pattern)}

\* invalidatePattern(cacheType, pattern): deletes on the NodeCache directly,
\* no counter is touched
\* mutant of invalidatePattern: the matching keys are removed through
\* this.del, which counts a delete for each
invalidatePatternCounted(m, cacheType, pattern) ==
    IF cachesLookup(cacheType) = "undefined" THEN returns(m, Undefined)
    ELSE IF cachesLookup(cacheType) = "inherited" THEN throws(m, "TypeError")
    ELSE LET nc == m.caches[cacheType]
             gone == matchingKeys(nc, pattern)
         IN  returns([caches |-> [m.caches EXCEPT ![cacheType] =
                        [nc EXCEPT
                            !.data = [k \in StoreKeys |->
                                        IF k \in gone THEN NoEntry ELSE nc.data[k]],
                            !.keys = @ - Cardinality(gone)]],
                      hitStats |-> [m.hitStats EXCEPT ![cacheType].deletes =
                                        @ + Cardinality(gone)]],
                     Undefined)

invalidatePattern(m, cacheType, pattern) ==
    IF cachesLookup(cacheType) = "undefined" THEN returns(m, Undefined)
    ELSE IF cachesLookup(cacheType) = "inherited" THEN throws(m, "TypeError")
    ELSE LET nc == m.caches[cacheType]
             gone == matchingKeys(nc, pattern)
         IN  returns([m EXCEPT !.caches[cacheType] =
                        [nc EXCEPT
                            !.data = [k \in StoreKeys |->
                                        IF k \in gone THEN NoEntry ELSE nc.data[k]],
                            !.keys = @ - Cardinality(gone)]],
                     Undefined)

\* one {key, value} item of the array a warmCache loader resolves to
item(k, v) == [key |-> k, value |-> v]

\* data.forEach(item => { if (item.key && item.value) this.set(...) }):
\* stops at the first set that throws
RECURSIVE warmItems(_, _, _, _)
warmItems(m, cacheType, items, t) ==
    IF items = <<>> THEN returns(m, Undefined)
    ELSE LET it == Head(items)
         IN  IF Len(it.key) > 0 /\ Truthy(it.value)
             THEN LET s == set(m, cacheType, it.key, it.value, Null, t)
                  IN  IF s.threw # "" THEN s
                      ELSE warmItems(s.m, cacheType, Tail(items), t)
             ELSE warmItems(m, cacheType, Tail(items), t)

\* mutant of warmCache: no try/catch, a failure of the loader reaches the
\* caller
warmCacheUncaught(m, cacheType, loaded, t) ==
    IF loaded.rejects THEN throws(m, "LoaderFailure")
    ELSE IF ~loaded.isArray THEN returns(m, Undefined)
    ELSE LET w == warmItems(m, cacheType, loaded.items, t)
         IN  IF w.threw # "" THEN throws(w.m, w.threw) ELSE returns(w.m, Undefined)

\* warmCache(cacheType, dataLoader), from the point where `await dataLoader()`
\* settles with `loaded`: the try/catch swallows a rejection and any throw
warmCache(m, cacheType, loaded, t) ==
    IF loaded.rejects THEN returns(m, Undefined)
    ELSE IF ~loaded.isArray THEN returns(m, Undefined)
    ELSE LET w == warmItems(m, cacheType, loaded.items, t)
         IN  returns(w.m, Undefined)

\* the character of one decimal digit
digit(d) == <<"0", "1", "2", "3", "4", "5", "6", "7", "8", "9">>[d + 1]

\* String(n) of a non-negative integer, as a sequence of characters
RECURSIVE decimal(_)
decimal(n) == IF n < 10 THEN <<digit(n)>> ELSE decimal(n \div 10) \o <<digit(n % 10)>>

\* mutant of toFixed2: the hundredths are cut off, not rounded
toFixed2Truncated(hits, misses) ==
    LET n == (hits * 10000) \div (hits + misses)
        frac == n % 100
    IN  decimal(n \div 100) \o <<".", digit(frac \div 10), digit(frac % 10)>>

\* Double arithmetic. A significand is a sequence of bits, least significant
\* first; a double is a significand and the number of its bits that stand
\* behind the binary point.
RECURSIVE bitsOf(_)
bitsOf(n) == IF n = 0 THEN <<>> ELSE <<n % 2>> \o bitsOf(n \div 2)

RECURSIVE valueOf(_)
valueOf(bits) == IF bits = <<>> THEN 0 ELSE bits[1] + 2 * valueOf(Tail(bits))

\* bits * c + carry for a small c
RECURSIVE timesSmall(_, _, _)
timesSmall(bits, c, carry) ==
    IF bits = <<>> THEN bitsOf(carry)
    ELSE LET v == bits[1] * c + carry
         IN  <<v % 2>> \o timesSmall(Tail(bits), c, v \div 2)

RECURSIVE increment(_)
increment(bits) ==
    IF bits = <<>> THEN <<1>>
    ELSE IF bits[1] = 0 THEN <<1>> \o Tail(bits)
    ELSE <<0>> \o increment(Tail(bits))

\* the significand without its d lowest bits, rounded to nearest, ties to
\* even; sticky tells that something non-zero lies below the lowest bit
roundToEven(bits, d, sticky) ==
    LET kept == SubSeq(bits, d + 1, Len(bits))
        below == sticky \/ \E i \in 1..(d - 1) : bits[i] = 1
    IN  IF bits[d] = 1 /\ (below \/ kept[1] = 1) THEN increment(kept) ELSE kept

\* the first 54 significant bits of rem / t (0 < rem < t), the number of zero
\* bits before them and whether the division left a remainder
RECURSIVE longDivision(_, _, _, _)
longDivision(rem, t, acc, zeros) ==
    IF Len(acc) = 54 THEN [bits |-> acc, zeros |-> zeros, sticky |-> rem # 0]
    ELSE LET b == (2 * rem) \div t
             r == (2 * rem) % t
         IN  IF acc = <<>> /\ b = 0
             THEN longDivision(r, t, acc, zeros + 1)
             ELSE longDivision(r, t, <<b>> \o acc, zeros)

\* a / b in double arithmetic, 0 < a < b
doubleQuotient(a, b) ==
    LET q == longDivision(a, b, <<>>, 0)
    IN  [bits |-> roundToEven(q.bits, 1, q.sticky), scale |-> q.zeros + 53]

\* x * 100 in double arithmetic
doubleTimes100(x) ==
    LET p == timesSmall(x.bits, 100, 0)
        d == Len(p) - 53
    IN  [bits |-> roundToEven(p, d, FALSE), scale |-> x.scale - d]

\* Number.prototype.toFixed(2) of a double below 1000: the number n of
\* hundredths nearest to its exact value, the larger n of two
hundredths(x) ==
    LET p == timesSmall(x.bits, 100, 0)
        whole == IF x.scale >= Len(p) THEN 0
                 ELSE valueOf(SubSeq(p, x.scale + 1, Len(p)))
        half == IF x.scale >= 1 /\ x.scale <= Len(p) THEN p[x.scale] ELSE 0
    IN  whole + half

\* (hits / (hits + misses) * 100).toFixed(2), hits > 0: the division and the
\* multiplication round to the nearest double, toFixed writes the nearest
\* number of hundredths of the result with exactly two decimals
toFixed2(hits, misses) ==
    LET n == IF misses = 0 THEN 10000
             ELSE hundredths(doubleTimes100(doubleQuotient(hits, hits + misses)))
        frac == n % 100
    IN  decimal(n \div 100) \o <<".", digit(frac \div 10), digit(frac % 10)>>

\* the hitRate expression of getStats()
hitRate(hs) ==
    IF hs.hits > 0 THEN toFixed2(hs.hits, hs.misses) \o <<"%">> ELSE <<"0", "%">>

\* getStats(): per cache type the key count, the counters and the hit rate
getStats(m) ==
    [c \in CacheTypes |->
        [keys |-> Cardinality(NodeCache_keys(m.caches[c])),
         hitStats |-> m.hitStats[c],
         hitRate |-> hitRate(m.hitStats[c])]]

noReport == <<>>

\* cleanup(): flushAll and recordHit('flushes') on every cache, then the
\* counters are re-initialised
\* mutant of cleanup: the counters are not reset after the flushes
cleanupKeepsStats(m) ==
    returns([caches |-> [c \in CacheTypes |-> NodeCache_flushAll(m.caches[c])],
             hitStats |-> [c \in CacheTypes |->
                             [m.hitStats[c] EXCEPT !.flushes = @ + 1]]],
            Undefined)

cleanup(m) ==
    returns([caches |-> [c \in CacheTypes |-> NodeCache_flushAll(m.caches[c])],
             hitStats |-> setupStatsTracking],
            Undefined)

\* shutdown(): close() on every cache
shutdown(m) ==
    returns([m EXCEPT !.caches = [c \in CacheTypes |-> NodeCache_close(m.caches[c])]],
            Undefined)

-----------------------------------------------------------------------------
(* The state machine *)

M == [caches |-> caches, hitStats |-> hitStats]

noKey == <<>>

noPre == [data |-> [k \in StoreKeys |-> NoEntry], hitStats |-> noStats]

\* no loader has settled
noLoad == [rejects |-> FALSE, isArray |-> FALSE, items |-> <<>>]

\* the record of the operation that ran last: its arguments, its outcome,
\* what the loader of a warmCache settled with, and what the cache it names
\* held when it was called
call(op, cacheType, key, value, ttl, r, stats) ==
    [op |-> op, cacheType |-> cacheType, key |-> key, value |-> value, ttl |-> ttl,
     ret |-> r.ret, threw |-> r.threw, stats |-> stats, loaded |-> noLoad,
     pre |-> IF cacheType \in CacheTypes
             THEN [data |-> caches[cacheType].data, hitStats |-> hitStats[cacheType]]
             ELSE noPre]

noWarm == [pending |-> FALSE, cacheType |-> ""]

noGets == [c \in CacheTypes |-> 0]

\* no database table and no request is modelled
noDb == <<>>

noReqs == <<>>

Init ==
    /\ caches = [c \in CacheTypes |-> newNodeCache]
    /\ hitStats = setupStatsTracking
    /\ now = 0
    /\ last = call("constructor", "", noKey, Undefined, Undefined,
                   returns(M, Undefined), noReport)
    /\ warm = noWarm
    /\ gets = noGets
    /\ nops = 0
    /\ callers = [c \in 1..MaxCallers |-> "none"]
    /\ db = noDb
    /\ reqs = noReqs

\* the effect of a manager method with outcome r
apply(r) ==
    /\ caches' = r.m.caches
    /\ hitStats' = r.m.hitStats
    /\ nops' = nops + 1

Get(cacheType, key) ==
    /\ nops < MaxOps
    /\ LET r == get(M, cacheType, key, now)
       IN  /\ apply(r)
           /\ last' = call("get", cacheType, key, Undefined, Undefined, r, noReport)
    /\ gets' = IF cacheType \in CacheTypes
               THEN [gets EXCEPT ![cacheType] = @ + 1] ELSE gets
    /\ UNCHANGED <<now, warm, callers, db, reqs>>

Set(cacheType, key, value, ttl) ==
    /\ nops < MaxOps
    /\ LET r == set(M, cacheType, key, value, ttl, now)
       IN  /\ apply(r)
           /\ last' = call("set", cacheType, key, value, ttl, r, noReport)
    /\ UNCHANGED <<now, warm, gets, callers, db, reqs>>

Del(cacheType, key) ==
    /\ nops < MaxOps
    /\ LET r == del(M, cacheType, key)
       IN  /\ apply(r)
           /\ last' = call("del", cacheType, key, Undefined, Undefined, r, noReport)
    /\ UNCHANGED <<now, warm, gets, callers, db, reqs>>

InvalidateLeaderboards ==
    /\ nops < MaxOps
    /\ LET r == invalidateLeaderboards(M)
       IN  /\ apply(r)
           /\ last' = call("invalidateLeaderboards", "leaderboards", noKey,
                           Undefined, Undefined, r, noReport)
    /\ UNCHANGED <<now, warm, gets, callers, db, reqs>>

IncrementRateLimit(identifier, ttl) ==
    /\ nops < MaxOps
    /\ LET r == incrementRateLimit(M, identifier, ttl, now)
       IN  /\ apply(r)
           /\ last' = call("incrementRateLimit", "rateLimit", rateKey(identifier),
                           Undefined, ttl, r, noReport)
    /\ gets' = [gets EXCEPT !["rateLimit"] = @ + 1]
    /\ UNCHANGED <<now, warm, callers, db, reqs>>

InvalidatePattern(cacheType, pattern) ==
    /\ nops < MaxOps
    /\ LET r == invalidatePattern(M, cacheType, pattern)
       IN  /\ apply(r)
           /\ last' = call("invalidatePattern", cacheType, pattern,
                           Undefined, Undefined, r, noReport)
    /\ UNCHANGED <<now, warm, gets, callers, db, reqs>>

\* warmCache up to its await: the loader has been called and is pending
WarmCacheCall(cacheType) ==
    /\ nops < MaxOps
    /\ ~warm.pending
    /\ warm' = [pending |-> TRUE, cacheType |-> cacheType]
    /\ nops' = nops + 1
    /\ last' = call("warmCacheCall", cacheType, noKey, Undefined, Undefined,
                    returns(M, Undefined), noReport)
    /\ UNCHANGED <<caches, hitStats, now, gets, callers, db, reqs>>

\* the loader settles and warmCache runs to its end
WarmCacheResume(loaded) ==
    /\ warm.pending
    /\ LET r == warmCache(M, warm.cacheType, loaded, now)
       IN  /\ caches' = r.m.caches
           /\ hitStats' = r.m.hitStats
           /\ last' = [call("warmCache", warm.cacheType, noKey, Undefined, Undefined,
                            r, noReport) EXCEPT !.loaded = loaded]
    /\ warm' = noWarm
    /\ UNCHANGED <<now, gets, nops, callers, db, reqs>>

GetStats ==
    /\ nops < MaxOps
    /\ nops' = nops + 1
    /\ last' = call("getStats", "", noKey, Undefined, Undefined,
                    returns(M, Undefined), getStats(M))
    /\ UNCHANGED <<caches, hitStats, now, warm, gets, callers, db, reqs>>

\* healthCheck(): getStats() and getMemoryUsage(), status 'healthy'
HealthCheck ==
    /\ nops < MaxOps
    /\ nops' = nops + 1
    /\ last' = call("healthCheck", "", noKey, Undefined, Undefined,
                    returns(M, Undefined), getStats(M))
    /\ UNCHANGED <<caches, hitStats, now, warm, gets, callers, db, reqs>>

Cleanup ==
    /\ nops < MaxOps
    /\ LET r == cleanup(M)
       IN  /\ apply(r)
           /\ last' = call("cleanup", "", noKey, Undefined, Undefined, r, noReport)
    /\ gets' = noGets
    /\ UNCHANGED <<now, warm, callers, db, reqs>>

Shutdown ==
    /\ nops < MaxOps
    /\ LET r == shutdown(M)
       IN  /\ apply(r)
           /\ last' = call("shutdown", "", noKey, Undefined, Undefined, r, noReport)
    /\ UNCHANGED <<now, warm, gets, callers, db, reqs>>

\* Date.now() advances
Tick(d) ==
    /\ now + d <= MaxNow
    /\ now' = now + d
    /\ last' = call("tick", "", noKey, Undefined, Undefined,
                    returns(M, Undefined), noReport)
    /\ UNCHANGED <<caches, hitStats, warm, gets, nops, callers, db, reqs>>

\* the checkperiod timer of one cache fires: _checkData()
Sweep(cacheType) ==
    /\ caches[cacheType].timer
    /\ caches' = [caches EXCEPT ![cacheType] = NodeCache_checkData(@, now)]
    /\ last' = call("sweep", "", noKey, Undefined, Undefined,
                    returns(M, Undefined), noReport)
    /\ UNCHANGED <<hitStats, now, warm, gets, nops, callers, db, reqs>>

\* what a warmCache loader can settle with
LoaderResults ==
    {[rejects |-> TRUE, isArray |-> FALSE, items |-> <<>>],
     [rejects |-> FALSE, isArray |-> FALSE, items |-> <<>>]}
    \cup {[rejects |-> FALSE, isArray |-> TRUE, items |-> a] :
            a \in {<<item(<<"a">>, Num(1))>>,
                   <<item(<<"a">>, Num(0)), item(<<"a", "b">>, Num(2))>>,
                   <<item(<<"a">>, Num(1)), item(<<"a", "b">>, Num(2)),
                     item(rateKey(<<"a">>), Num(1))>>}}

Next ==
    \/ \E c \in ActiveTypes : \E k \in KeysOf(c) : Get(c, k)
    \/ \E c \in SetTypes, k \in AllKeys, v \in Values : Set(c, k, v, Num(1))
    \/ \E c \in ActiveTypes : \E k \in KeysOf(c) : Del(c, k)
    \/ InvalidateLeaderboards
    \/ \E i \in Identifiers : IncrementRateLimit(i, Num(1))
    \/ \E c \in ActiveTypes, p \in Patterns : InvalidatePattern(c, p)
    \/ \E c \in WarmTypes : WarmCacheCall(c)
    \/ \E l \in LoaderResults : WarmCacheResume(l)
    \/ Cleanup
    \/ \E d \in TickSteps : Tick(d)
    \/ \E c \in ActiveTypes : Sweep(c)

Spec == Init /\ [][Next]_vars

-----------------------------------------------------------------------------
(* Calls that name something other than a configured cache type, between   *)
(* calls on a configured one.                                              *)

NextNames ==
    \/ \E c \in OtherNames, k \in Keys : Get(c, k)
    \/ \E c \in OtherNames, k \in Keys, v \in Values, ttl \in TTLs : Set(c, k, v, ttl)
    \/ \E c \in OtherNames, k \in Keys : Del(c, k)
    \/ \E c \in OtherNames, p \in Patterns : InvalidatePattern(c, p)
    \/ \E k \in Keys, v \in Values : Set("leaderboards", k, v, Null)
    \/ \E k \in Keys : Get("leaderboards", k)

SpecNames == Init /\ [][NextNames]_vars

-----------------------------------------------------------------------------
(* set and get of values of every kind on one cache type.                  *)

NextValues ==
    \/ \E k \in AllKeys, v \in JsValues, ttl \in TTLs : Set("leaderboards", k, v, ttl)
    \/ \E k \in AllKeys : Get("leaderboards", k)
    \/ \E d \in TickSteps : Tick(d)

SpecValues == Init /\ [][NextValues]_vars

-----------------------------------------------------------------------------
(* set with every kind of ttl argument, get and the clock.                 *)

NextTtl ==
    \/ \E k \in Keys, v \in Values, ttl \in AllTTLs : Set("leaderboards", k, v, ttl)
    \/ \E k \in Keys : Get("leaderboards", k)
    \/ \E d \in TickSteps : Tick(d)

SpecTtl == Init /\ [][NextTtl]_vars

-----------------------------------------------------------------------------
(* Key composition: two calls of one wrapper, each with its own arguments. *)

notComposed == <<>>

InitKeys ==
    /\ caches = [c \in CacheTypes |-> newNodeCache]
    /\ hitStats = setupStatsTracking
    /\ now = 0
    /\ last = [op |-> "constructor", cacheType |-> "", key |-> noKey,
               value |-> Undefined, ttl |-> Undefined, ret |-> Undefined,
               threw |-> "", stats |-> noReport, loaded |-> noLoad, pre |-> noPre]
    /\ warm = noWarm
    /\ gets = noGets
    /\ nops = 0
    /\ callers = [c \in 1..MaxCallers |-> "none"]
    /\ db = noDb
    /\ \E template \in DOMAIN Templates :
         \E a \in [1..Templates[template] -> ArgStrings],
            b \in [1..Templates[template] -> ArgStrings] :
             reqs = <<[template |-> template, args |-> a, key |-> notComposed],
                      [template |-> template, args |-> b, key |-> notComposed]>>

\* call i composes its key
ComposeKey(i) ==
    /\ reqs[i].key = notComposed
    /\ reqs' = [reqs EXCEPT ![i].key = composedKey(reqs[i].template, reqs[i].args)]
    /\ UNCHANGED <<caches, hitStats, now, last, warm, gets, nops, callers, db>>

NextKeys == \E i \in 1..2 : ComposeKey(i)

SpecKeys == InitKeys /\ [][NextKeys]_vars

-----------------------------------------------------------------------------
(* The controllers. Each request runs its handler; a handler runs to its   *)
(* next await in one step, the statement it awaits is executed by the      *)
(* database in a step of its own, and the handler continues in a later     *)
(* step. reqs holds the requests, db the tables.                           *)

\* the manager right after construction
Constructed ==
    /\ caches = [c \in CacheTypes |-> newNodeCache]
    /\ hitStats = setupStatsTracking
    /\ now = 0
    /\ last = [op |-> "constructor", cacheType |-> "", key |-> noKey,
               value |-> Undefined, ttl |-> Undefined, ret |-> Undefined,
               threw |-> "", stats |-> noReport, loaded |-> noLoad, pre |-> noPre]
    /\ warm = noWarm
    /\ gets = noGets
    /\ nops = 0
    /\ callers = [c \in 1..MaxCallers |-> "none"]

\* a row object; n identifies its contents
Obj(n) == [ty |-> "object", n |-> n]

\* class AppError and its subclasses; code is the driver's error.code, which
\* an AppError does not have
AppError(name, message, statusCode, errorCode) ==
    [name |-> name, message |-> message, statusCode |-> statusCode,
     errorCode |-> errorCode, code |-> "", status |-> 0, body |-> FALSE]

ValidationError(message) == AppError("ValidationError", message, 400, "VALIDATION_ERROR")

DatabaseError(message) == AppError("DatabaseError", message, 500, "DATABASE_ERROR")

\* super(`${resource} not found`, 404, 'NOT_FOUND')
NotFoundError(resource) ==
    AppError("NotFoundError", resource \o " not found", 404, "NOT_FOUND")

ConflictError(message) == AppError("ConflictError", message, 409, "CONFLICT")

GameError(message) == AppError("GameError", message, 400, "GAME_ERROR")

\* an error raised by the sqlite driver or by a library: no statusCode
DriverError(code) ==
    [name |-> "Error", message |-> code, statusCode |-> 0, errorCode |-> "",
     code |-> code, status |-> 0, body |-> FALSE]

\* an error whose name is 'CastError': no statusCode, no code
CastError ==
    [name |-> "CastError", message |-> "Cast failed", statusCode |-> 0,
     errorCode |-> "", code |-> "", status |-> 0, body |-> FALSE]

\* the SyntaxError the JSON body parser raises: status 400, statusCode 400
\* and a body property
JsonSyntaxError ==
    [name |-> "SyntaxError", message |-> "Unexpected token", statusCode |-> 400,
     errorCode |-> "", code |-> "", status |-> 400, body |-> TRUE]

noError ==
    [name |-> "", message |-> "", statusCode |-> 0, errorCode |-> "", code |-> "",
     status |-> 0, body |-> FALSE]

\* handleDatabaseError(error)
handleDatabaseError(error) ==
    CASE error.code = "SQLITE_CONSTRAINT_UNIQUE" -> ConflictError("Duplicate entry found")
      [] error.code = "SQLITE_CONSTRAINT_FOREIGNKEY" ->
            ValidationError("Invalid reference to related data")
      [] error.code = "SQLITE_CONSTRAINT_NOTNULL" ->
            ValidationError("Required field is missing")
      [] error.code = "SQLITE_BUSY" ->
            DatabaseError("Database is busy, please try again later")
      [] error.code = "SQLITE_LOCKED" ->
            DatabaseError("Database is locked, please try again later")
      [] OTHER -> DatabaseError("Database operation failed")

\* errorHandler(error, req, res, next): the error the response is built from
\* The six ifs run one after the other, a later one replacing what an
\* earlier one chose.
errorHandler(error) ==
    LET cast == IF error.name = "CastError"
                THEN ValidationError("Invalid data format") ELSE error
        constraint == IF error.code = "SQLITE_CONSTRAINT"
                      THEN ConflictError("Database constraint violation") ELSE cast
        busy == IF error.code = "SQLITE_BUSY"
                THEN DatabaseError("Database is busy, please try again")
                ELSE constraint
        unavailable == IF error.code \in {"ENOTFOUND", "ECONNREFUSED"}
                       THEN AppError("AppError", "External service unavailable",
                                     503, "SERVICE_UNAVAILABLE")
                       ELSE busy
        json == IF error.name = "SyntaxError" /\ error.status = 400 /\ error.body
                THEN ValidationError("Invalid JSON format") ELSE unavailable
    IN  IF json.statusCode = 0
        THEN AppError("AppError", "Internal server error", 500, "INTERNAL_ERROR")
        ELSE json

noResponse == [statusCode |-> 0, errorCode |-> "", message |-> "", data |-> Undefined,
               cached |-> FALSE]

\* res.json({ success: true, ... })
success(data, cached) ==
    [statusCode |-> 200, errorCode |-> "", message |-> "", data |-> data,
     cached |-> cached]

\* the body of an error response: the error's message and its errorCode, or
\* INTERNAL_ERROR for an error without one
formatErrorResponse(error) ==
    [message |-> error.message,
     code |-> IF error.errorCode = "" THEN "INTERNAL_ERROR" ELSE error.errorCode]

\* the response to a handler that threw error: asyncHandler passes it to
\* errorHandler, which answers with the status of the translated error and
\* the formatted body
failure(error) ==
    LET err == errorHandler(error)
        response == formatErrorResponse(err)
    IN  [statusCode |-> err.statusCode, errorCode |-> response.code,
         message |-> response.message, data |-> Undefined, cached |-> FALSE]

\* a request that has arrived and whose handler has not started
request(op, id) ==
    [op |-> op, id |-> id, pc |-> "start", local |-> Undefined, changes |-> 0,
     thrown |-> noError, res |-> noResponse, floor |-> 0, wrote |-> 0]

\* a request arrives
Arrive(op, id) ==
    /\ Len(reqs) < MaxRequests
    /\ reqs' = Append(reqs, request(op, id))
    /\ UNCHANGED <<caches, hitStats, now, last, warm, gets, nops, callers, db>>

\* request i is at pc of handler op
at(i, op, pc) == i \in DOMAIN reqs /\ reqs[i].op = op /\ reqs[i].pc = pc

\* request i stops with the error its handler lets out; thrown is the error
\* raised where the condition was detected
fails(i, thrown, error) ==
    [reqs EXCEPT ![i].pc = "done", ![i].thrown = thrown, ![i].res = failure(error)]

MaxOf(S) == CHOOSE x \in S : \A y \in S : y <= x

-----------------------------------------------------------------------------
(* PlayerController: the players table holds, per wallet, whether a row    *)
(* exists, is_active, and rev, the number of writes applied to the row     *)
(* (last_updated). A row object read from the table carries its rev.       *)
(* db.controller.db is the controller's this.db, assigned once by the      *)
(* constructor: a handler that is past its first query holds a database    *)
(* object.                                                                 *)

null == "null"

\* new Database(); opened tells whether this.db holds a database object
newDatabase == [isConnected |-> FALSE, connectionAttempts |-> 0, opened |-> FALSE]

\* Database.getDb(): this.db, null until connect() has opened the file
getDb(database) == IF database.opened THEN "sqlite3.Database" ELSE null

\* this.db.get(...), this.db.run(...) or this.db.all(...) on a null this.db:
\* no statusCode, no code
TypeError ==
    [name |-> "TypeError", message |-> "Cannot read properties of null",
     statusCode |-> 0, errorCode |-> "", code |-> "", status |-> 0, body |-> FALSE]

\* a request body without wallet_address
noWallet == <<>>

\* SELECT ... FROM players WHERE wallet_address = ? AND is_active = 1
selectPlayer(d, walletAddress) ==
    LET p == d.players[walletAddress]
    IN  IF p.row /\ p.is_active = 1 THEN Obj(p.rev) ELSE Undefined

\* the latest revision written by a mutation that has responded
completedRev ==
    MaxOf({0} \cup {reqs[j].wrote : j \in {k \in DOMAIN reqs :
                        /\ reqs[k].op \in {"createOrUpdatePlayer", "updateProgress",
                                           "deletePlayer", "resetProgress"}
                        /\ reqs[k].pc = "done"
                        /\ reqs[k].res.statusCode = 200}})

\* getPlayer up to its await: the cache lookup
GetPlayerCall(i) ==
    /\ at(i, "getPlayer", "start")
    /\ LET r == get(M, "players", playerKey(reqs[i].id), now)
       IN  /\ caches' = r.m.caches
           /\ hitStats' = r.m.hitStats
           /\ reqs' = IF Truthy(r.ret)
                      THEN [reqs EXCEPT ![i].pc = "done", ![i].floor = completedRev,
                                        ![i].res = success(r.ret, TRUE)]
                      ELSE [reqs EXCEPT ![i].pc = "db.get", ![i].floor = completedRev]
    /\ UNCHANGED <<now, last, warm, gets, nops, callers, db>>

\* getPlayer's await settles: the database has executed the SELECT, or the
\* call of this.db.get on a null this.db threw inside the try and the catch
\* answers with handleDatabaseError
GetPlayerQuery(i) ==
    /\ at(i, "getPlayer", "db.get")
    /\ reqs' = IF db.controller.db = null
               THEN fails(i, TypeError, handleDatabaseError(TypeError))
               ELSE [reqs EXCEPT ![i].pc = "resume",
                                 ![i].local = selectPlayer(db, reqs[i].id)]
    /\ UNCHANGED <<caches, hitStats, now, last, warm, gets, nops, callers, db>>

\* getPlayer after its await: setPlayer(walletAddress, player, 300), respond
GetPlayerResume(i) ==
    /\ at(i, "getPlayer", "resume")
    /\ IF ~Truthy(reqs[i].local)
       THEN /\ reqs' = fails(i, NotFoundError("Player"), NotFoundError("Player"))
            /\ UNCHANGED <<caches, hitStats>>
       ELSE LET r == set(M, "players", playerKey(reqs[i].id), reqs[i].local,
                         Num(300), now)
            IN  /\ caches' = r.m.caches
                /\ hitStats' = r.m.hitStats
                /\ reqs' = IF r.threw # ""
                           THEN fails(i, DriverError(r.threw),
                                      handleDatabaseError(DriverError(r.threw)))
                           ELSE [reqs EXCEPT ![i].pc = "done",
                                             ![i].res = success(reqs[i].local, FALSE)]
    /\ UNCHANGED <<now, last, warm, gets, nops, callers, db>>

\* the database executes updateProgress's existence SELECT; on a null
\* this.db the call of this.db.get throws, outside the try
UpdateProgressExists(i) ==
    /\ at(i, "updateProgress", "start")
    /\ reqs' = IF db.controller.db = null
               THEN fails(i, TypeError, TypeError)
               ELSE [reqs EXCEPT ![i].pc = "checked",
                                 ![i].local = selectPlayer(db, reqs[i].id)]
    /\ UNCHANGED <<caches, hitStats, now, last, warm, gets, nops, callers, db>>

\* updateProgress after its first await: if (!playerExists) throw, outside
\* the try
UpdateProgressCheck(i) ==
    /\ at(i, "updateProgress", "checked")
    /\ reqs' = IF ~Truthy(reqs[i].local)
               THEN fails(i, NotFoundError("Player"), NotFoundError("Player"))
               ELSE [reqs EXCEPT ![i].pc = "db.run"]
    /\ UNCHANGED <<caches, hitStats, now, last, warm, gets, nops, callers, db>>

\* the database executes UPDATE players SET ... WHERE wallet_address = ? AND
\* is_active = 1
UpdateProgressRun(i) ==
    /\ at(i, "updateProgress", "db.run")
    /\ LET w == reqs[i].id
           p == db.players[w]
       IN  IF p.row /\ p.is_active = 1
           THEN /\ db' = [db EXCEPT !.players[w].rev = p.rev + 1]
                /\ reqs' = [reqs EXCEPT ![i].pc = "resume", ![i].changes = 1,
                                        ![i].wrote = p.rev + 1]
           ELSE /\ db' = db
                /\ reqs' = [reqs EXCEPT ![i].pc = "resume", ![i].changes = 0]
    /\ UNCHANGED <<caches, hitStats, now, last, warm, gets, nops, callers>>

\* invalidatePlayer(walletAddress); invalidateLeaderboards()
invalidate(m, walletAddress) ==
    invalidateLeaderboards(del(m, "players", playerKey(walletAddress)).m)

\* updateProgress after the UPDATE: result === 0 throws inside the try,
\* otherwise invalidate and respond
UpdateProgressResume(i) ==
    /\ at(i, "updateProgress", "resume")
    /\ IF reqs[i].changes = 0
       THEN /\ reqs' = fails(i, NotFoundError("Player"),
                             handleDatabaseError(NotFoundError("Player")))
            /\ UNCHANGED <<caches, hitStats>>
       ELSE LET r == invalidate(M, reqs[i].id)
            IN  /\ caches' = r.m.caches
                /\ hitStats' = r.m.hitStats
                /\ reqs' = [reqs EXCEPT ![i].pc = "done",
                                        ![i].res = success(Undefined, FALSE)]
    /\ UNCHANGED <<now, last, warm, gets, nops, callers, db>>

\* the database executes UPDATE players SET is_active = 0 ... WHERE
\* wallet_address = ?; on a null this.db the call of this.db.run throws
\* inside the try
DeletePlayerRun(i) ==
    /\ at(i, "deletePlayer", "start")
    /\ LET w == reqs[i].id
           p == db.players[w]
       IN  IF db.controller.db = null
           THEN /\ db' = db
                /\ reqs' = fails(i, TypeError, handleDatabaseError(TypeError))
           ELSE IF p.row
           THEN /\ db' = [db EXCEPT !.players[w].is_active = 0,
                                    !.players[w].rev = p.rev + 1]
                /\ reqs' = [reqs EXCEPT ![i].pc = "checked", ![i].changes = 1,
                                        ![i].wrote = p.rev + 1]
           ELSE /\ db' = db
                /\ reqs' = [reqs EXCEPT ![i].pc = "checked", ![i].changes = 0]
    /\ UNCHANGED <<caches, hitStats, now, last, warm, gets, nops, callers>>

\* deletePlayer after the UPDATE: result === 0 throws inside the try,
\* otherwise the admin_actions INSERT is awaited
DeletePlayerCheck(i) ==
    /\ at(i, "deletePlayer", "checked")
    /\ reqs' = IF reqs[i].changes = 0
               THEN fails(i, NotFoundError("Player"),
                          handleDatabaseError(NotFoundError("Player")))
               ELSE [reqs EXCEPT ![i].pc = "resume"]
    /\ UNCHANGED <<caches, hitStats, now, last, warm, gets, nops, callers, db>>

\* deletePlayer after the admin_actions INSERT: invalidate and respond
DeletePlayerResume(i) ==
    /\ at(i, "deletePlayer", "resume")
    /\ LET r == invalidate(M, reqs[i].id)
       IN  /\ caches' = r.m.caches
           /\ hitStats' = r.m.hitStats
           /\ reqs' = [reqs EXCEPT ![i].pc = "done",
                                   ![i].res = success(Undefined, FALSE)]
    /\ UNCHANGED <<now, last, warm, gets, nops, callers, db>>

\* the database executes UPDATE players SET level = 1, ... WHERE
\* wallet_address = ? AND is_active = 1; on a null this.db the call of
\* this.db.run throws inside the try
ResetProgressRun(i) ==
    /\ at(i, "resetProgress", "start")
    /\ LET w == reqs[i].id
           p == db.players[w]
       IN  IF db.controller.db = null
           THEN /\ db' = db
                /\ reqs' = fails(i, TypeError, handleDatabaseError(TypeError))
           ELSE IF p.row /\ p.is_active = 1
           THEN /\ db' = [db EXCEPT !.players[w].rev = p.rev + 1]
                /\ reqs' = [reqs EXCEPT ![i].pc = "checked", ![i].changes = 1,
                                        ![i].wrote = p.rev + 1]
           ELSE /\ db' = db
                /\ reqs' = [reqs EXCEPT ![i].pc = "checked", ![i].changes = 0]
    /\ UNCHANGED <<caches, hitStats, now, last, warm, gets, nops, callers>>

\* resetProgress after the UPDATE: result === 0 throws inside the try,
\* otherwise the admin_actions INSERT is awaited
ResetProgressCheck(i) ==
    /\ at(i, "resetProgress", "checked")
    /\ reqs' = IF reqs[i].changes = 0
               THEN fails(i, NotFoundError("Player"),
                          handleDatabaseError(NotFoundError("Player")))
               ELSE [reqs EXCEPT ![i].pc = "resume"]
    /\ UNCHANGED <<caches, hitStats, now, last, warm, gets, nops, callers, db>>

\* resetProgress after the admin_actions INSERT: invalidate and respond
ResetProgressResume(i) ==
    /\ at(i, "resetProgress", "resume")
    /\ LET r == invalidate(M, reqs[i].id)
       IN  /\ caches' = r.m.caches
           /\ hitStats' = r.m.hitStats
           /\ reqs' = [reqs EXCEPT ![i].pc = "done",
                                   ![i].res = success(Undefined, FALSE)]
    /\ UNCHANGED <<now, last, warm, gets, nops, callers, db>>

\* createOrUpdatePlayer up to its response to the database: a request
\* without wallet_address throws ValidationError, outside the try; otherwise
\* the database executes INSERT OR REPLACE INTO players, which leaves one
\* active row whether or not there was one; on a null this.db the call of
\* this.db.run throws inside the try
CreateOrUpdatePlayerRun(i) ==
    /\ at(i, "createOrUpdatePlayer", "start")
    /\ LET w == reqs[i].id
       IN  IF w = noWallet
           THEN /\ db' = db
                /\ reqs' = fails(i, ValidationError("Wallet address is required"),
                                 ValidationError("Wallet address is required"))
           ELSE IF db.controller.db = null
           THEN /\ db' = db
                /\ reqs' = fails(i, TypeError, handleDatabaseError(TypeError))
           ELSE /\ db' = [db EXCEPT !.players[w].row = TRUE,
                                    !.players[w].is_active = 1,
                                    !.players[w].rev = db.players[w].rev + 1]
                /\ reqs' = [reqs EXCEPT ![i].pc = "resume", ![i].changes = 1,
                                        ![i].wrote = db.players[w].rev + 1]
    /\ UNCHANGED <<caches, hitStats, now, last, warm, gets, nops, callers>>

\* createOrUpdatePlayer after the INSERT OR REPLACE: invalidate and respond
CreateOrUpdatePlayerResume(i) ==
    /\ at(i, "createOrUpdatePlayer", "resume")
    /\ LET r == invalidate(M, reqs[i].id)
       IN  /\ caches' = r.m.caches
           /\ hitStats' = r.m.hitStats
           /\ reqs' = [reqs EXCEPT ![i].pc = "done",
                                   ![i].res = success(Undefined, FALSE)]
    /\ UNCHANGED <<now, last, warm, gets, nops, callers, db>>

\* routes/api.js constructs the controller when the server file requires it,
\* before startServer() calls database.connect(): this.db is what getDb()
\* returns on the new Database
InitPlayers ==
    /\ Constructed
    /\ \E row \in BOOLEAN :
         db = [controller |-> [db |-> getDb(newDatabase)],
               players |-> [w \in Wallets |->
                              [row |-> row, is_active |-> 1, rev |-> 0]]]
    /\ reqs = noReqs

PlayerOps == {"getPlayer", "createOrUpdatePlayer", "updateProgress",
              "deletePlayer", "resetProgress"}

NextPlayers ==
    \/ \E op \in PlayerOps, w \in Wallets : Arrive(op, w)
    \/ Arrive("createOrUpdatePlayer", noWallet)
    \/ \E i \in 1..MaxRequests :
         \/ GetPlayerCall(i)
         \/ GetPlayerQuery(i)
         \/ GetPlayerResume(i)
         \/ UpdateProgressExists(i)
         \/ UpdateProgressCheck(i)
         \/ UpdateProgressRun(i)
         \/ UpdateProgressResume(i)
         \/ DeletePlayerRun(i)
         \/ DeletePlayerCheck(i)
         \/ DeletePlayerResume(i)
         \/ ResetProgressRun(i)
         \/ ResetProgressCheck(i)
         \/ ResetProgressResume(i)
         \/ CreateOrUpdatePlayerRun(i)
         \/ CreateOrUpdatePlayerResume(i)

SpecPlayers == InitPlayers /\ [][NextPlayers]_vars

-----------------------------------------------------------------------------
(* PlayerController, statistics: getPlayerStats caches what it computes    *)
(* from the player's row under stats:{walletAddress} in 'statistics'.      *)

\* getPlayerStats up to its await: the cache lookup
GetPlayerStatsCall(i) ==
    /\ at(i, "getPlayerStats", "start")
    /\ LET r == get(M, "statistics", statsKey(reqs[i].id), now)
       IN  /\ caches' = r.m.caches
           /\ hitStats' = r.m.hitStats
           /\ reqs' = IF Truthy(r.ret)
                      THEN [reqs EXCEPT ![i].pc = "done", ![i].floor = completedRev,
                                        ![i].res = success(r.ret, TRUE)]
                      ELSE [reqs EXCEPT ![i].pc = "db.get", ![i].floor = completedRev]
    /\ UNCHANGED <<now, last, warm, gets, nops, callers, db>>

\* getPlayerStats's Promise.all settles: the database has executed the
\* SELECT on players, or the call of this.db.get on a null this.db threw
\* inside the try
GetPlayerStatsQuery(i) ==
    /\ at(i, "getPlayerStats", "db.get")
    /\ reqs' = IF db.controller.db = null
               THEN fails(i, TypeError, handleDatabaseError(TypeError))
               ELSE [reqs EXCEPT ![i].pc = "resume",
                                 ![i].local = selectPlayer(db, reqs[i].id)]
    /\ UNCHANGED <<caches, hitStats, now, last, warm, gets, nops, callers, db>>

\* getPlayerStats after Promise.all: if (!player) throw, inside the try;
\* otherwise set('statistics', cacheKey, stats, 600) and respond
GetPlayerStatsResume(i) ==
    /\ at(i, "getPlayerStats", "resume")
    /\ IF ~Truthy(reqs[i].local)
       THEN /\ reqs' = fails(i, NotFoundError("Player"),
                             handleDatabaseError(NotFoundError("Player")))
            /\ UNCHANGED <<caches, hitStats>>
       ELSE LET r == set(M, "statistics", statsKey(reqs[i].id), reqs[i].local,
                         Num(600), now)
            IN  /\ caches' = r.m.caches
                /\ hitStats' = r.m.hitStats
                /\ reqs' = IF r.threw # ""
                           THEN fails(i, DriverError(r.threw),
                                      handleDatabaseError(DriverError(r.threw)))
                           ELSE [reqs EXCEPT ![i].pc = "done",
                                             ![i].res = success(reqs[i].local, FALSE)]
    /\ UNCHANGED <<now, last, warm, gets, nops, callers, db>>

PlayerStatsOps == {"getPlayerStats", "deletePlayer", "resetProgress"}

NextPlayerStats ==
    \/ \E op \in PlayerStatsOps, w \in Wallets : Arrive(op, w)
    \/ \E i \in 1..MaxRequests :
         \/ GetPlayerStatsCall(i)
         \/ GetPlayerStatsQuery(i)
         \/ GetPlayerStatsResume(i)
         \/ DeletePlayerRun(i)
         \/ DeletePlayerCheck(i)
         \/ DeletePlayerResume(i)
         \/ ResetProgressRun(i)
         \/ ResetProgressCheck(i)
         \/ ResetProgressResume(i)

SpecPlayerStats == InitPlayers /\ [][NextPlayerStats]_vars

-----------------------------------------------------------------------------
(* GameController, sessions: game_sessions holds, per session id, whether  *)
(* a row exists, completion_status, score_earned and wallet_address;       *)
(* players holds total_score. Every updateSession sends score_earned =     *)
(* sessionScore and every endSession completion_status = 'completed'.      *)

sessionScore == 1

sessionWallet == <<"w">>

\* SELECT * FROM game_sessions WHERE session_id = ? AND completion_status = ?
selectActiveSession(d, sessionId) ==
    LET s == d.game_sessions[sessionId]
    IN  IF s.row /\ s.completion_status = "in_progress"
        THEN [ty |-> "object", n |-> s.score_earned,
              completion_status |-> s.completion_status]
        ELSE Undefined

\* SELECT * FROM game_sessions WHERE session_id = ?
selectSession(d, sessionId) ==
    LET s == d.game_sessions[sessionId]
    IN  IF s.row
        THEN [ty |-> "object", n |-> s.score_earned,
              completion_status |-> s.completion_status]
        ELSE Undefined

\* the database executes updateSession's SELECT; on a null this.db the call
\* of this.db.get throws inside the try
UpdateSessionSelect(i) ==
    /\ at(i, "updateSession", "start")
    /\ reqs' = IF db.controller.db = null
               THEN fails(i, TypeError, handleDatabaseError(TypeError))
               ELSE [reqs EXCEPT ![i].pc = "checked",
                                 ![i].local = selectActiveSession(db, reqs[i].id)]
    /\ UNCHANGED <<caches, hitStats, now, last, warm, gets, nops, callers, db>>

\* updateSession after the SELECT: if (!session) throw, inside the try
UpdateSessionCheck(i) ==
    /\ at(i, "updateSession", "checked")
    /\ reqs' = IF ~Truthy(reqs[i].local)
               THEN fails(i, NotFoundError("Active game session"),
                          handleDatabaseError(NotFoundError("Active game session")))
               ELSE [reqs EXCEPT ![i].pc = "db.run"]
    /\ UNCHANGED <<caches, hitStats, now, last, warm, gets, nops, callers, db>>

\* the database executes UPDATE game_sessions SET score_earned = ... WHERE
\* session_id = ?
UpdateSessionRun(i) ==
    /\ at(i, "updateSession", "db.run")
    /\ db' = IF db.game_sessions[reqs[i].id].row
             THEN [db EXCEPT !.game_sessions[reqs[i].id].score_earned = sessionScore]
             ELSE db
    /\ reqs' = [reqs EXCEPT ![i].pc = "resume"]
    /\ UNCHANGED <<caches, hitStats, now, last, warm, gets, nops, callers>>

\* const cachedSession = getSession(sessionId); if (cachedSession) {
\* Object.assign(...); setSession(sessionId, cachedSession, 1800) }
\* Object.assign changes the stored object itself (useClones: false), so the
\* entry holds the new fields even when setSession then throws.
refreshSession(m, sessionId, t) ==
    LET g == get(m, "sessions", sessionKey(sessionId), t)
        assigned == [g.m EXCEPT
                        !.caches["sessions"].data[sessionKey(sessionId)].v =
                            Obj(sessionScore)]
    IN  IF Truthy(g.ret)
        THEN set(assigned, "sessions", sessionKey(sessionId), Obj(sessionScore),
                 Num(1800), t)
        ELSE returns(g.m, Undefined)

\* the endSession requests for id that have responded with success
endedBy(id) ==
    {k \in DOMAIN reqs : /\ reqs[k].op = "endSession"
                         /\ reqs[k].id = id
                         /\ reqs[k].pc = "done"
                         /\ reqs[k].res.statusCode = 200}

\* updateSession after the UPDATE: refresh the cached session and respond;
\* floor records how many endSession requests for the id had responded
UpdateSessionResume(i) ==
    /\ at(i, "updateSession", "resume")
    /\ LET r == refreshSession(M, reqs[i].id, now)
       IN  /\ caches' = r.m.caches
           /\ hitStats' = r.m.hitStats
           /\ reqs' = IF r.threw # ""
                      THEN fails(i, DriverError(r.threw),
                                 handleDatabaseError(DriverError(r.threw)))
                      ELSE [reqs EXCEPT ![i].pc = "done",
                                        ![i].floor = Cardinality(endedBy(reqs[i].id)),
                                        ![i].res = success(Undefined, FALSE)]
    /\ UNCHANGED <<now, last, warm, gets, nops, callers, db>>

\* the database executes endSession's SELECT; on a null this.db the call of
\* this.db.get throws inside the try
EndSessionSelect(i) ==
    /\ at(i, "endSession", "start")
    /\ reqs' = IF db.controller.db = null
               THEN fails(i, TypeError, handleDatabaseError(TypeError))
               ELSE [reqs EXCEPT ![i].pc = "checked",
                                 ![i].local = selectSession(db, reqs[i].id)]
    /\ UNCHANGED <<caches, hitStats, now, last, warm, gets, nops, callers, db>>

\* endSession after the SELECT: the two checks, inside the try
EndSessionCheck(i) ==
    /\ at(i, "endSession", "checked")
    /\ reqs' = IF ~Truthy(reqs[i].local)
               THEN fails(i, NotFoundError("Game session"),
                          handleDatabaseError(NotFoundError("Game session")))
               ELSE IF reqs[i].local.completion_status # "in_progress"
               THEN fails(i, GameError("Session already ended"),
                          handleDatabaseError(GameError("Session already ended")))
               ELSE [reqs EXCEPT ![i].pc = "db.run"]
    /\ UNCHANGED <<caches, hitStats, now, last, warm, gets, nops, callers, db>>

\* the database executes UPDATE game_sessions SET completion_status = ? ...
\* WHERE session_id = ?
EndSessionRun(i) ==
    /\ at(i, "endSession", "db.run")
    /\ db' = IF db.game_sessions[reqs[i].id].row
             THEN [db EXCEPT !.game_sessions[reqs[i].id].completion_status = "completed"]
             ELSE db
    /\ reqs' = [reqs EXCEPT ![i].pc = "ended"]
    /\ UNCHANGED <<caches, hitStats, now, last, warm, gets, nops, callers>>

\* cacheManager.del('sessions', `session:${sessionId}`) and the response
endSessionResponds(i) ==
    LET r == del(M, "sessions", sessionKey(reqs[i].id))
    IN  /\ caches' = r.m.caches
        /\ hitStats' = r.m.hitStats
        /\ reqs' = [reqs EXCEPT ![i].pc = "done",
                                ![i].res = success(Undefined, FALSE)]

\* endSession after the UPDATE: a completed session that earned a score
\* awaits updatePlayerStatistics, any other goes on to the response
EndSessionEnded(i) ==
    /\ at(i, "endSession", "ended")
    /\ IF reqs[i].local.n > 0
       THEN /\ reqs' = [reqs EXCEPT ![i].pc = "db.stats"]
            /\ UNCHANGED <<caches, hitStats>>
       ELSE endSessionResponds(i)
    /\ UNCHANGED <<now, last, warm, gets, nops, callers, db>>

\* the database executes updatePlayerStatistics's UPDATE players SET
\* total_score = total_score + ? ... WHERE wallet_address = ? AND is_active = 1;
\* wrote records that this request's statement was applied
EndSessionStats(i) ==
    /\ at(i, "endSession", "db.stats")
    /\ LET w == db.game_sessions[reqs[i].id].wallet_address
           p == db.players[w]
       IN  IF p.row /\ p.is_active = 1
           THEN /\ db' = [db EXCEPT !.players[w].total_score = @ + reqs[i].local.n]
                /\ reqs' = [reqs EXCEPT ![i].pc = "resume", ![i].wrote = 1]
           ELSE /\ db' = db
                /\ reqs' = [reqs EXCEPT ![i].pc = "resume"]
    /\ UNCHANGED <<caches, hitStats, now, last, warm, gets, nops, callers>>

\* endSession after updatePlayerStatistics
EndSessionResume(i) ==
    /\ at(i, "endSession", "resume")
    /\ endSessionResponds(i)
    /\ UNCHANGED <<now, last, warm, gets, nops, callers, db>>

\* the session ids uuidv4() can return: those of no row and of no
\* startSession on its way to the INSERT
freshSessionIds ==
    {s \in SessionIds : /\ ~db.game_sessions[s].row
                        /\ \A k \in DOMAIN reqs :
                              (reqs[k].op = "startSession" /\ reqs[k].id = s)
                                  => reqs[k].pc = "done"}

\* startSession up to its first await: a body without wallet_address or
\* level_started is refused before the try, any other goes on to the INSERT
\* under a new session id
StartSessionCall(wallet_address) ==
    /\ Len(reqs) < MaxSessionRequests
    /\ \E sessionId \in freshSessionIds :
          reqs' = Append(reqs,
                    IF wallet_address = noWallet
                    THEN [request("startSession", sessionId) EXCEPT
                            !.pc = "done",
                            !.thrown = ValidationError("Wallet address and level are required"),
                            !.res = failure(ValidationError("Wallet address and level are required"))]
                    ELSE [request("startSession", sessionId) EXCEPT !.pc = "db.run"])
    /\ UNCHANGED <<caches, hitStats, now, last, warm, gets, nops, callers, db>>

\* the database executes INSERT INTO game_sessions (session_id,
\* wallet_address, ...): the other columns take their defaults, and the
\* FOREIGN KEY on players rejects the row of a wallet without a players row
\* with SQLITE_CONSTRAINT; on a null this.db the call of this.db.run threw
\* inside the try
StartSessionRun(i) ==
    /\ at(i, "startSession", "db.run")
    /\ IF db.controller.db = null
       THEN /\ db' = db
            /\ reqs' = fails(i, TypeError, handleDatabaseError(TypeError))
       ELSE IF ~db.players[sessionWallet].row
       THEN /\ db' = db
            /\ reqs' = [reqs EXCEPT ![i].pc = "resume",
                                    ![i].thrown = DriverError("SQLITE_CONSTRAINT")]
       ELSE /\ db' = [db EXCEPT !.game_sessions[reqs[i].id] =
                         [row |-> TRUE, completion_status |-> "in_progress",
                          score_earned |-> 0, wallet_address |-> sessionWallet]]
            /\ reqs' = [reqs EXCEPT ![i].pc = "resume"]
    /\ UNCHANGED <<caches, hitStats, now, last, warm, gets, nops, callers>>

\* startSession after the INSERT: a rejected INSERT goes to the catch,
\* otherwise setSession(sessionId, sessionData, 1800) and the response; an
\* error of the set goes to handleDatabaseError
StartSessionResume(i) ==
    /\ at(i, "startSession", "resume")
    /\ IF reqs[i].thrown.code # ""
       THEN /\ reqs' = fails(i, reqs[i].thrown, handleDatabaseError(reqs[i].thrown))
            /\ UNCHANGED <<caches, hitStats>>
       ELSE LET r == set(M, "sessions", sessionKey(reqs[i].id), Obj(0), Num(1800), now)
            IN  /\ caches' = r.m.caches
                /\ hitStats' = r.m.hitStats
                /\ reqs' = IF r.threw # ""
                           THEN fails(i, DriverError(r.threw),
                                      handleDatabaseError(DriverError(r.threw)))
                           ELSE [reqs EXCEPT ![i].pc = "done",
                                             ![i].res = success(Undefined, FALSE)]
    /\ UNCHANGED <<now, last, warm, gets, nops, callers, db>>

\* an updateSession or endSession request arrives; req.params.sessionId is
\* whatever the client sends
SessionArrive(op, sessionId) ==
    /\ Len(reqs) < MaxSessionRequests
    /\ reqs' = Append(reqs, request(op, sessionId))
    /\ UNCHANGED <<caches, hitStats, now, last, warm, gets, nops, callers, db>>

\* no session has been started; routes/api.js constructs the controller when
\* the server file requires it, before startServer() calls
\* database.connect(): this.db is what getDb() returns on the new Database
InitSessions ==
    /\ caches = [c \in CacheTypes |-> newNodeCache]
    /\ hitStats = setupStatsTracking
    /\ now = 0
    /\ last = [op |-> "constructor", cacheType |-> "", key |-> noKey,
               value |-> Undefined, ttl |-> Undefined, ret |-> Undefined,
               threw |-> "", stats |-> noReport, loaded |-> noLoad, pre |-> noPre]
    /\ warm = noWarm
    /\ gets = noGets
    /\ nops = 0
    /\ callers = [c \in 1..MaxCallers |-> "none"]
    /\ db = [controller |-> [db |-> getDb(newDatabase)],
             players |-> [w \in Wallets |->
                            [row |-> TRUE, is_active |-> 1, rev |-> 0,
                             total_score |-> 0]],
             game_sessions |-> [s \in SessionIds |->
                                  [row |-> FALSE,
                                   completion_status |-> "in_progress",
                                   score_earned |-> 0,
                                   wallet_address |-> sessionWallet]]]
    /\ reqs = noReqs

SessionOps == {"startSession", "updateSession", "endSession"}

NextSessions ==
    \/ \E wallet_address \in {noWallet, sessionWallet} :
         StartSessionCall(wallet_address)
    \/ \E op \in SessionOps \ {"startSession"}, s \in SessionIds :
         SessionArrive(op, s)
    \/ \E i \in 1..MaxSessionRequests :
         \/ StartSessionRun(i)
         \/ StartSessionResume(i)
         \/ UpdateSessionSelect(i)
         \/ UpdateSessionCheck(i)
         \/ UpdateSessionRun(i)
         \/ UpdateSessionResume(i)
         \/ EndSessionSelect(i)
         \/ EndSessionCheck(i)
         \/ EndSessionRun(i)
         \/ EndSessionEnded(i)
         \/ EndSessionStats(i)
         \/ EndSessionResume(i)

SpecSessions == InitSessions /\ [][NextSessions]_vars

\* the steps of NextSessions a request takes while this.db is null: every
\* other step follows a query that has returned
NextSessionsNoDb ==
    \/ \E wallet_address \in {noWallet, sessionWallet} :
         StartSessionCall(wallet_address)
    \/ \E op \in SessionOps \ {"startSession"}, s \in SessionIds :
         SessionArrive(op, s)
    \/ \E i \in 1..MaxSessionRequests :
         \/ StartSessionRun(i)
         \/ UpdateSessionSelect(i)
         \/ EndSessionSelect(i)

SpecSessionsNoDb == InitSessions /\ [][NextSessionsNoDb]_vars

-----------------------------------------------------------------------------
(* GameController, achievements: achievements holds, per achievement id,   *)
(* is_active; player_achievements is the sequence of its rows. A request's *)
(* id is the pair <<walletAddress, achievementId>>.                        *)

\* SELECT * FROM achievements WHERE achievement_id = ? AND is_active = 1
selectAchievement(d, achievementId) ==
    IF d.achievements[achievementId].is_active = 1 THEN Obj(1) ELSE Undefined

\* the player_achievements rows of a wallet and an achievement
unlockRows(d, walletAddress, achievementId) ==
    {k \in DOMAIN d.player_achievements :
        /\ d.player_achievements[k].wallet_address = walletAddress
        /\ d.player_achievements[k].achievement_id = achievementId}

\* SELECT * FROM player_achievements WHERE wallet_address = ? AND
\* achievement_id = ?
selectExisting(d, walletAddress, achievementId) ==
    IF unlockRows(d, walletAddress, achievementId) # {} THEN Obj(1) ELSE Undefined

\* INSERT INTO player_achievements (wallet_address, achievement_id, ...):
\* the FOREIGN KEY on players and UNIQUE(wallet_address, achievement_id)
\* reject the row with SQLITE_CONSTRAINT
insertAchievement(d, walletAddress, achievementId) ==
    IF ~d.players[walletAddress].row
    THEN [db |-> d, code |-> "SQLITE_CONSTRAINT"]
    ELSE IF unlockRows(d, walletAddress, achievementId) # {}
    THEN [db |-> d, code |-> "SQLITE_CONSTRAINT"]
    ELSE [db |-> [d EXCEPT !.player_achievements =
                     Append(@, [wallet_address |-> walletAddress,
                                achievement_id |-> achievementId])],
          code |-> ""]

\* the database executes the SELECT on achievements; on a null this.db the
\* call of this.db.get throws inside the try
UnlockSelectAchievement(i) ==
    /\ at(i, "unlockAchievement", "start")
    /\ reqs' = IF db.controller.db = null
               THEN fails(i, TypeError, handleDatabaseError(TypeError))
               ELSE [reqs EXCEPT ![i].pc = "found",
                                 ![i].local = selectAchievement(db, reqs[i].id[2])]
    /\ UNCHANGED <<caches, hitStats, now, last, warm, gets, nops, callers, db>>

\* unlockAchievement after the first SELECT: if (!achievement) throw
UnlockCheckAchievement(i) ==
    /\ at(i, "unlockAchievement", "found")
    /\ reqs' = IF ~Truthy(reqs[i].local)
               THEN fails(i, NotFoundError("Achievement"),
                          handleDatabaseError(NotFoundError("Achievement")))
               ELSE [reqs EXCEPT ![i].pc = "db.existing"]
    /\ UNCHANGED <<caches, hitStats, now, last, warm, gets, nops, callers, db>>

\* the database executes the SELECT on player_achievements
UnlockSelectExisting(i) ==
    /\ at(i, "unlockAchievement", "db.existing")
    /\ reqs' = [reqs EXCEPT ![i].pc = "existing",
                            ![i].local = selectExisting(db, reqs[i].id[1],
                                                        reqs[i].id[2])]
    /\ UNCHANGED <<caches, hitStats, now, last, warm, gets, nops, callers, db>>

\* unlockAchievement after the second SELECT: if (existing) throw
UnlockCheckExisting(i) ==
    /\ at(i, "unlockAchievement", "existing")
    /\ reqs' = IF Truthy(reqs[i].local)
               THEN fails(i, GameError("Achievement already unlocked"),
                          handleDatabaseError(GameError("Achievement already unlocked")))
               ELSE [reqs EXCEPT ![i].pc = "db.run"]
    /\ UNCHANGED <<caches, hitStats, now, last, warm, gets, nops, callers, db>>

\* the database executes the INSERT
UnlockInsert(i) ==
    /\ at(i, "unlockAchievement", "db.run")
    /\ LET r == insertAchievement(db, reqs[i].id[1], reqs[i].id[2])
       IN  /\ db' = r.db
           /\ reqs' = IF r.code # ""
                      THEN [reqs EXCEPT ![i].pc = "resume",
                                        ![i].thrown = DriverError(r.code)]
                      ELSE [reqs EXCEPT ![i].pc = "resume", ![i].wrote = 1]
    /\ UNCHANGED <<caches, hitStats, now, last, warm, gets, nops, callers>>

\* unlockAchievement after the INSERT: a rejected INSERT goes to the catch,
\* otherwise del('achievements', `achievements:${walletAddress}`) and respond
UnlockResume(i) ==
    /\ at(i, "unlockAchievement", "resume")
    /\ IF reqs[i].thrown.code # ""
       THEN /\ reqs' = fails(i, reqs[i].thrown, handleDatabaseError(reqs[i].thrown))
            /\ UNCHANGED <<caches, hitStats>>
       ELSE LET r == del(M, "achievements", achievementsKey(reqs[i].id[1]))
            IN  /\ caches' = r.m.caches
                /\ hitStats' = r.m.hitStats
                /\ reqs' = [reqs EXCEPT ![i].pc = "done",
                                        ![i].res = success(Undefined, FALSE)]
    /\ UNCHANGED <<now, last, warm, gets, nops, callers, db>>

\* routes/api.js constructs the controller when the server file requires it,
\* before startServer() calls database.connect(): this.db is what getDb()
\* returns on the new Database
InitAchievements ==
    /\ Constructed
    /\ \E row \in BOOLEAN, is_active \in {0, 1} :
         db = [controller |-> [db |-> getDb(newDatabase)],
               players |-> [w \in Wallets |->
                              [row |-> row, is_active |-> 1, rev |-> 0]],
               achievements |-> [a \in AchievementIds |-> [is_active |-> is_active]],
               player_achievements |-> <<>>]
    /\ reqs = noReqs

NextAchievements ==
    \/ \E w \in Wallets, a \in AchievementIds : Arrive("unlockAchievement", <<w, a>>)
    \/ \E i \in 1..MaxRequests :
         \/ UnlockSelectAchievement(i)
         \/ UnlockCheckAchievement(i)
         \/ UnlockSelectExisting(i)
         \/ UnlockCheckExisting(i)
         \/ UnlockInsert(i)
         \/ UnlockResume(i)

SpecAchievements == InitAchievements /\ [][NextAchievements]_vars

-----------------------------------------------------------------------------
(* ipFilter: reqs is the sequence of the requests of one client IP, each   *)
(* with the time it was made, the status the filter gave it (200 stands    *)
(* for next()) and the stored entry of its counter before and after.       *)

\* `requestCount > 1000`, scaled down to the model's cap
requestLimit == Min(1000, MaxRequestLimit)

\* the ttl of incrementRateLimit(requestKey, 3600), scaled down to the
\* model's cap
requestWindow == Min(3600, MaxWindow)

\* the clock steps between requests (ms)
FilterSteps == {500}

\* mutant of ipFilter: a rejected request is counted too
ipFilterCountsRejected(m, clientIP, t) ==
    LET g == getRateLimit(m, requestKey(clientIP), t)
        requestCount == IF Truthy(g.ret) THEN g.ret.n ELSE 0
        r == incrementRateLimit(g.m, requestKey(clientIP), Num(requestWindow), t)
    IN  IF requestCount > requestLimit
        THEN [m |-> r.m, statusCode |-> 429]
        ELSE [m |-> r.m, statusCode |-> IF r.threw = "" THEN 200 ELSE 500]

\* ipFilter(req, res, next)
ipFilter(m, clientIP, t) ==
    LET g == getRateLimit(m, requestKey(clientIP), t)
        requestCount == IF Truthy(g.ret) THEN g.ret.n ELSE 0
    IN  IF requestCount > requestLimit
        THEN [m |-> g.m, statusCode |-> 429]
        ELSE LET r == incrementRateLimit(g.m, requestKey(clientIP),
                                         Num(requestWindow), t)
             IN  [m |-> r.m, statusCode |-> IF r.threw = "" THEN 200 ELSE 500]

\* the stored entry of the client's counter
counter(cs, clientIP) == cs["rateLimit"].data[rateKey(requestKey(clientIP))]

\* the client sends a request
FilterRequest(clientIP) ==
    /\ Len(reqs) < MaxHistory
    /\ LET r == ipFilter(M, clientIP, now)
       IN  /\ caches' = r.m.caches
           /\ hitStats' = r.m.hitStats
           /\ reqs' = Append(reqs, [ip |-> clientIP, at |-> now,
                                    statusCode |-> r.statusCode,
                                    before |-> counter(caches, clientIP),
                                    after |-> counter(r.m.caches, clientIP)])
    /\ UNCHANGED <<now, last, warm, gets, nops, callers, db>>

InitFilter ==
    /\ Constructed
    /\ db = noDb
    /\ reqs = noReqs

NextFilter ==
    \/ \E ip \in ClientIPs : FilterRequest(ip)
    \/ \E d \in FilterSteps : Tick(d)
    \/ Sweep("rateLimit")

SpecFilter == InitFilter /\ [][NextFilter]_vars

-----------------------------------------------------------------------------
(* Database.connect() and close(): db holds the fields of the Database     *)
(* object, reqs the connect() and close() calls made from outside. Each    *)
(* connect() call                                                          *)
(* records how many times it opened the database and how often the open    *)
(* failed. Whether an open succeeds is the file system's choice. The clock *)
(* moves only while the retry timer runs.                                  *)

\* this.maxConnectionAttempts = 5
maxConnectionAttempts == 5

\* the delay of the retry timer (ms)
retryDelay == 1000

\* mutant of retries: `<=` in place of `<`
retriesInclusive(connectionAttempts) == connectionAttempts <= maxConnectionAttempts

\* this.connectionAttempts < this.maxConnectionAttempts
retries(connectionAttempts) == connectionAttempts < maxConnectionAttempts

\* call i of op is at pc
pendingConnect(i, op, pc) ==
    /\ i \in DOMAIN reqs
    /\ reqs[i].op = op
    /\ reqs[i].pc = pc

\* connect() is called: new sqlite3.Database(dbPath, callback); nothing
\* keeps it from being called while another call is in progress
Connect ==
    /\ Len(reqs) < MaxConnects
    /\ db' = [db EXCEPT !.opened = TRUE]
    /\ reqs' = Append(reqs, [op |-> "connect", pc |-> "opening", opens |-> 1,
                             failures |-> 0, at |-> now, due |-> 0])
    /\ UNCHANGED <<caches, hitStats, now, last, warm, gets, nops, callers>>

\* the open callback of call i is called with an error
OpenFails(i) ==
    /\ pendingConnect(i, "connect", "opening")
    /\ db' = [db EXCEPT !.connectionAttempts = @ + 1]
    /\ reqs' = [reqs EXCEPT ![i].failures = @ + 1,
                            ![i].due = now + retryDelay,
                            ![i].pc = IF retries(db.connectionAttempts + 1)
                                      THEN "timer" ELSE "rejected"]
    /\ UNCHANGED <<caches, hitStats, now, last, warm, gets, nops, callers>>

\* the open callback of call i is called without error: initializeTables()
\* queues its statements and resolves
OpenSucceeds(i) ==
    /\ pendingConnect(i, "connect", "opening")
    /\ db' = [db EXCEPT !.isConnected = TRUE]
    /\ reqs' = [reqs EXCEPT ![i].pc = "resolved"]
    /\ UNCHANGED <<caches, hitStats, now, last, warm, gets, nops, callers>>

\* retryDelay passes while a retry timer is running
TimerRuns ==
    /\ \E i \in DOMAIN reqs : reqs[i].pc = "timer" /\ now < reqs[i].due
    /\ now' = now + retryDelay
    /\ UNCHANGED <<caches, hitStats, last, warm, gets, nops, callers, db, reqs>>

\* the retry timer of call i fires: this.connect() opens again
RetryTimer(i) ==
    /\ pendingConnect(i, "connect", "timer")
    /\ reqs[i].due <= now
    /\ db' = [db EXCEPT !.opened = TRUE]
    /\ reqs' = [reqs EXCEPT ![i].pc = "opening", ![i].opens = @ + 1]
    /\ UNCHANGED <<caches, hitStats, now, last, warm, gets, nops, callers>>

\* close() is called: this.db.close(callback), or resolve() when there is
\* no database object
Close ==
    /\ Len(reqs) < MaxConnects
    /\ reqs' = Append(reqs, [op |-> "close",
                             pc |-> IF db.opened THEN "closing" ELSE "resolved",
                             opens |-> 0, failures |-> 0, at |-> now, due |-> 0])
    /\ UNCHANGED <<caches, hitStats, now, last, warm, gets, nops, callers, db>>

\* the close callback of call i is called, with or without an error
CloseReturns(i, err) ==
    /\ pendingConnect(i, "close", "closing")
    /\ db' = IF err THEN db ELSE [db EXCEPT !.isConnected = FALSE]
    /\ reqs' = [reqs EXCEPT ![i].pc = IF err THEN "rejected" ELSE "resolved"]
    /\ UNCHANGED <<caches, hitStats, now, last, warm, gets, nops, callers>>

InitConnect ==
    /\ Constructed
    /\ db = newDatabase
    /\ reqs = noReqs

NextConnect ==
    \/ Connect
    \/ \E i \in 1..MaxConnects : OpenFails(i)
    \/ \E i \in 1..MaxConnects : OpenSucceeds(i)
    \/ TimerRuns
    \/ \E i \in 1..MaxConnects : RetryTimer(i)
    \/ Close
    \/ \E i \in 1..MaxConnects : \E err \in BOOLEAN : CloseReturns(i, err)

SpecConnect == InitConnect /\ [][NextConnect]_vars

\* the driver calls every callback, time passes and every timer fires
SpecConnectFair ==
    /\ InitConnect
    /\ [][NextConnect]_vars
    /\ \A i \in 1..MaxConnects :
          /\ WF_vars(OpenFails(i) \/ OpenSucceeds(i))
          /\ WF_vars(RetryTimer(i))
          /\ WF_vars(\E err \in BOOLEAN : CloseReturns(i, err))
    /\ WF_vars(TimerRuns)

-----------------------------------------------------------------------------
(* Maintenance and shutdown: cleanup() and shutdown() between sets, gets,  *)
(* clock ticks and sweeps.  The value stored plays no part in expiry,      *)
(* sweeps, cleanup or shutdown: every set stores the same value.           *)

NextLife ==
    \/ \E k \in Keys, ttl \in TTLs : Set("leaderboards", k, Num(1), ttl)
    \/ \E k \in Keys : Get("leaderboards", k)
    \/ \E i \in Identifiers : IncrementRateLimit(i, Num(1))
    \/ Cleanup
    \/ Shutdown
    \/ \E d \in TickSteps : Tick(d)
    \/ \E c \in ActiveTypes : Sweep(c)

SpecLife == Init /\ [][NextLife]_vars

-----------------------------------------------------------------------------
(* cleanup() after other operations; reqs keeps the manager as it was      *)
(* when cleanup was called.                                                *)

CleanupObserved ==
    /\ nops < MaxOps
    /\ LET r == cleanup(M)
       IN  /\ apply(r)
           /\ last' = call("cleanup", "", noKey, Undefined, Undefined, r, noReport)
    /\ gets' = noGets
    /\ reqs' = <<[op |-> "cleanup", before |-> M]>>
    /\ UNCHANGED <<now, warm, callers, db>>

NextCleanup ==
    \/ \E k \in Keys, v \in Values : Set("leaderboards", k, v, Num(1))
    \/ \E c \in ActiveTypes : \E k \in KeysOf(c) : Get(c, k)
    \/ \E c \in ActiveTypes : \E k \in KeysOf(c) : Del(c, k)
    \/ InvalidateLeaderboards
    \/ \E i \in Identifiers : IncrementRateLimit(i, Num(1))
    \/ CleanupObserved

SpecCleanup == Init /\ [][NextCleanup]_vars

-----------------------------------------------------------------------------
(* get, set, del and invalidatePattern on two namespaces that both hold    *)
(* entries.                                                                *)

NextIsolation ==
    \/ \E k \in Keys, v \in Values : Set("leaderboards", k, v, Num(1))
    \/ \E i \in Identifiers : IncrementRateLimit(i, Num(1))
    \/ \E c \in ActiveTypes : \E k \in KeysOf(c) : Get(c, k)
    \/ \E c \in ActiveTypes : \E k \in KeysOf(c) : Del(c, k)
    \/ \E c \in ActiveTypes, p \in Patterns : InvalidatePattern(c, p)

SpecIsolation == Init /\ [][NextIsolation]_vars

-----------------------------------------------------------------------------
(* The same operations with a fair checkperiod timer: _checkData() re-arms *)
(* its timeout on every run, so the sweep of a cache keeps running for as  *)
(* long as close() has not stopped it.                                     *)

SpecSweep ==
    /\ Init
    /\ [][NextLife]_vars
    /\ \A c \in ActiveTypes : WF_vars(Sweep(c))

-----------------------------------------------------------------------------
(* Concurrent callers of incrementRateLimit.  incrementRateLimit has no    *)
(* await: each dispatched caller runs it to completion, in any order.      *)

\* the identifier all the callers count
rateId == <<"a">>

\* the ttl (seconds) the callers pass
rateTTL == Num(1)

\* the state after set('rateLimit', 'a', 1): one other key is stored
rateLimitWithOtherKey ==
    set([caches |-> [c \in CacheTypes |-> newNodeCache],
         hitStats |-> setupStatsTracking],
        "rateLimit", <<"a">>, Num(1), Null, 0).m

InitRate ==
    /\ \E other \in BOOLEAN :
         LET m0 == IF other THEN rateLimitWithOtherKey
                   ELSE [caches |-> [c \in CacheTypes |-> newNodeCache],
                         hitStats |-> setupStatsTracking]
         IN  /\ caches = m0.caches
             /\ hitStats = m0.hitStats
             /\ nops = IF other THEN 1 ELSE 0
    /\ now = 0
    /\ last = [op |-> "constructor", cacheType |-> "", key |-> noKey,
               value |-> Undefined, ttl |-> Undefined, ret |-> Undefined,
               threw |-> "", stats |-> noReport, loaded |-> noLoad, pre |-> noPre]
    /\ warm = noWarm
    /\ gets = noGets
    /\ \E n \in 1..MaxCallers :
         callers = [c \in 1..MaxCallers |-> IF c <= n THEN "pending" ELSE "none"]
    /\ db = noDb
    /\ reqs = noReqs

\* caller c runs incrementRateLimit(rateId, rateTTL)
CallerIncrement(c) ==
    /\ callers[c] = "pending"
    /\ LET r == incrementRateLimit(M, rateId, rateTTL, now)
       IN  /\ caches' = r.m.caches
           /\ hitStats' = r.m.hitStats
           /\ last' = call("incrementRateLimit", "rateLimit", rateKey(rateId),
                           Undefined, rateTTL, r, noReport)
           /\ callers' = [callers EXCEPT ![c] = IF r.threw = "" THEN "done" ELSE "threw"]
    /\ gets' = [gets EXCEPT !["rateLimit"] = @ + 1]
    /\ UNCHANGED <<now, warm, nops, db, reqs>>

NextRate ==
    \/ \E c \in 1..MaxCallers : CallerIncrement(c)
    \/ \E d \in TickSteps : Tick(d)
    \/ Sweep("rateLimit")

SpecRate == InitRate /\ [][NextRate]_vars

-----------------------------------------------------------------------------
(* getStats() over the counter values a cache type can have reached: the   *)
(* state after one set, `h` hits, `ms` misses and the sweep of the expired *)
(* entry.                                                                  *)

\* hits and misses whose exact percentage lies midway between two hundredths
\* (14.375, 25.625)
tiedCounts == {<<23, 137>>, <<41, 119>>}

InitStats ==
    /\ caches = [c \in CacheTypes |-> newNodeCache]
    /\ \E c \in ActiveTypes,
          counts \in ((0..MaxCount) \X (0..MaxCount)) \cup tiedCounts :
         LET h == counts[1]
             ms == counts[2]
         IN  /\ hitStats = [setupStatsTracking EXCEPT
                              ![c] = [noStats EXCEPT !.hits = h, !.misses = ms,
                                                     !.sets = IF h > 0 THEN 1 ELSE 0]]
             /\ gets = [noGets EXCEPT ![c] = h + ms]
    /\ now = MaxNow
    /\ last = [op |-> "constructor", cacheType |-> "", key |-> noKey,
               value |-> Undefined, ttl |-> Undefined, ret |-> Undefined,
               threw |-> "", stats |-> noReport, loaded |-> noLoad, pre |-> noPre]
    /\ warm = noWarm
    /\ nops = 0
    /\ callers = [c \in 1..MaxCallers |-> "none"]
    /\ db = noDb
    /\ reqs = noReqs

NextStats == GetStats \/ HealthCheck

SpecStats == InitStats /\ [][NextStats]_vars

-----------------------------------------------------------------------------
(* Properties *)

\* the cache type the last operation named is a configured one
onCache == last.cacheType \in CacheTypes

\* the keys a cache's data holds
storedKeys(data) == {k \in StoreKeys : data[k] # NoEntry}

\* the capacity the model gives a cache type
capacity(c) == Min(cacheOptions[c].maxKeys, MaxKeysCap)

\* the last operation was set(ns, k, v, ttl) with a positive ttl on a
\* configured cache type
positiveTtlSet ==
    /\ last.op = "set"
    /\ onCache
    /\ last.ttl.ty = "number"
    /\ last.ttl.n > 0

\* C1 as stated: for every configured namespace, key, value and positive
\* ttl, set(ns,k,v,ttl) followed immediately by get(ns,k) returns v.
C1_SetThenGetAlways ==
    positiveTtlSet => get(M, last.cacheType, last.key, now).ret = last.value

\* C1 as stated, for the values other than undefined (it fails on a full
\* namespace).
C1_SetThenGetDefined ==
    (positiveTtlSet /\ last.value # Undefined)
        => get(M, last.cacheType, last.key, now).ret = last.value

\* C1 amended: whenever set(ns,k,v,ttl) with a positive ttl on a configured
\* namespace returns true, a get(ns,k) that follows immediately returns v,
\* and null where v is undefined.
C1_SetThenGet ==
    (positiveTtlSet /\ last.ret = Bool(TRUE))
        => /\ get(M, last.cacheType, last.key, now).threw = ""
           /\ get(M, last.cacheType, last.key, now).ret =
                  IF last.value = Undefined THEN Null ELSE last.value

\* a set with a positive ttl has replaced a different value by a truthy one
\* and returned true
C1_Witness ==
    /\ positiveTtlSet
    /\ last.ret = Bool(TRUE)
    /\ Truthy(last.value)
    /\ last.pre.data[last.key] # NoEntry
    /\ last.pre.data[last.key].v # last.value

\* the last operation was a get of a key whose stored entry had expired
expiredGet ==
    /\ last.op = "get"
    /\ onCache
    /\ last.pre.data[last.key] # NoEntry
    /\ last.pre.data[last.key].t < now

\* C2: a get of an entry whose ttl has elapsed returns absent, removes the
\* entry from the namespace and raises the namespace's misses by exactly 1.
C2_ExpiredGet ==
    expiredGet =>
        /\ last.threw = ""
        /\ last.ret = Null
        /\ caches[last.cacheType].data[last.key] = NoEntry
        /\ hitStats[last.cacheType].misses = last.pre.hitStats.misses + 1

\* an expired entry has been looked up while another entry is still stored
C2_Witness ==
    /\ expiredGet
    /\ storedKeys(caches[last.cacheType].data) # {}

\* the last operation was a set of a brand-new key on a namespace that held
\* maxKeys entries
fullSet ==
    /\ last.op = "set"
    /\ onCache
    /\ last.pre.data[last.key] = NoEntry
    /\ Cardinality(storedKeys(last.pre.data)) = capacity(last.cacheType)

\* C3: set of a brand-new key on a full namespace returns false, does not
\* throw, stores nothing and leaves every stored entry as it was.
C3_FullSetReturnsFalse ==
    fullSet =>
        /\ last.threw = ""
        /\ last.ret = Bool(FALSE)
        /\ caches[last.cacheType].data = last.pre.data

\* C4: no cache operation on a configured namespace raises an exception,
\* whatever the cache holds.
C4_NeverThrows ==
    (last.cacheType \notin OtherNames) => last.threw = ""

\* C5: when all N dispatched callers of incrementRateLimit for the same
\* identifier have run, none hit a full namespace and the ttl has not
\* elapsed, the stored count is N.
C5_NoLostUpdate ==
    (/\ \A c \in 1..MaxCallers : callers[c] \in {"none", "done"}
     /\ \E c \in 1..MaxCallers : callers[c] = "done"
     /\ now <= rateTTL.n * 1000)
        => caches["rateLimit"].data[rateKey(rateId)].v
               = Num(Cardinality({c \in 1..MaxCallers : callers[c] = "done"}))

\* three or more callers have all run within the ttl
C5_Witness ==
    /\ \A c \in 1..MaxCallers : callers[c] = "done"
    /\ now <= rateTTL.n * 1000

\* s occurs in k: k = x \o s \o y for some x and y
contains(k, s) ==
    \E a \in 0..Len(k) :
        /\ a + Len(s) <= Len(k)
        /\ \A i \in 1..Len(s) : k[a + i] = s[i]

\* C6: invalidatePattern(ns, s) removes exactly the keys of ns that contain s;
\* every other key keeps its value and expiry.
C6_PatternExact ==
    (last.op = "invalidatePattern" /\ onCache) =>
        /\ last.threw = ""
        /\ \A k \in AllKeys :
             IF contains(k, last.key)
             THEN caches[last.cacheType].data[k] = NoEntry
             ELSE caches[last.cacheType].data[k] = last.pre.data[k]

\* a pattern has removed one stored key and kept another that lacks it
C6_Witness ==
    /\ last.op = "invalidatePattern"
    /\ onCache
    /\ \E k \in storedKeys(last.pre.data) : contains(k, last.key)
    /\ \E k \in storedKeys(last.pre.data) : ~contains(k, last.key)

\* C7: for a name that is no configured namespace get returns absent, set
\* returns false and del returns 0, none throws, and all entries and
\* counters stay as they are.
C7_InvalidNamespaceNoOp ==
    [][(/\ nops' = nops + 1
        /\ last'.op \in {"get", "set", "del"}
        /\ last'.cacheType \notin CacheTypes)
       => (/\ last'.threw = ""
           /\ last'.ret = (CASE last'.op = "get" -> Null
                             [] last'.op = "set" -> Bool(FALSE)
                             [] last'.op = "del" -> Num(0))
           /\ caches' = caches
           /\ hitStats' = hitStats)]_vars

\* C8: no namespace ever holds more entries than its maxKeys.
C8_WithinCapacity ==
    \A c \in CacheTypes :
        /\ Cardinality(storedKeys(caches[c].data)) <= capacity(c)
        /\ Cardinality(storedKeys(caches[c].data)) <= cacheOptions[c].maxKeys

\* a namespace is at its capacity and a further set has just been refused
C8_Witness ==
    /\ last.op = "set"
    /\ onCache
    /\ last.threw = "ECACHEFULL"
    /\ Cardinality(storedKeys(caches[last.cacheType].data)) = capacity(last.cacheType)

\* the entry the last operation's key had was stored and not expired
liveBefore ==
    /\ last.pre.data[last.key] # NoEntry
    /\ ~(last.pre.data[last.key].t < now)

\* C9: a get on a configured namespace raises exactly one counter, hits when
\* it returns the value, misses when the key is missing or expired; so
\* hits + misses is the number of gets since the counters were reset.
C9_GetCounts ==
    /\ \A c \in CacheTypes : hitStats[c].hits + hitStats[c].misses = gets[c]
    /\ (last.op = "get" /\ onCache) =>
         LET hs == hitStats[last.cacheType]
             was == last.pre.hitStats
         IN  /\ hs.sets = was.sets /\ hs.deletes = was.deletes
             /\ hs.flushes = was.flushes
             /\ IF liveBefore
                THEN /\ last.ret = last.pre.data[last.key].v
                     /\ hs.hits = was.hits + 1 /\ hs.misses = was.misses
                ELSE /\ last.ret = Null
                     /\ hs.hits = was.hits /\ hs.misses = was.misses + 1

\* a get has hit on a namespace that has also counted a miss
C9_Witness ==
    /\ last.op = "get"
    /\ onCache
    /\ liveBefore
    /\ hitStats[last.cacheType].misses > 0

\* the number a sequence of digit characters denotes
RECURSIVE numberOf(_)
numberOf(chars) ==
    IF chars = <<>> THEN 0
    ELSE 10 * numberOf(SubSeq(chars, 1, Len(chars) - 1))
         + (CHOOSE d \in 0..9 : digit(d) = chars[Len(chars)])

\* text is hits / (hits + misses) as a percentage with two decimals: digits,
\* a point, two digits and '%', the nearest hundredth to the quotient
twoDecimalPercent(text, hits, misses) ==
    /\ Len(text) >= 5
    /\ text[Len(text)] = "%"
    /\ text[Len(text) - 3] = "."
    /\ LET chars == SubSeq(text, 1, Len(text) - 4) \o SubSeq(text, Len(text) - 2, Len(text) - 1)
       IN  /\ \A i \in 1..Len(chars) : \E d \in 0..9 : chars[i] = digit(d)
           /\ LET off == numberOf(chars) * (hits + misses) - 10000 * hits
              IN  2 * off <= hits + misses /\ -2 * off <= hits + misses

\* C10 as stated: hitRate is hits / (hits + misses) as a percentage with two
\* decimals, and 0% when hits + misses = 0.
C10_HitRateAsClaimed ==
    last.op = "getStats" =>
        \A c \in CacheTypes :
            LET r == last.stats[c]
            IN  IF r.hitStats.hits + r.hitStats.misses = 0
                THEN r.hitRate = <<"0", "%">>
                ELSE twoDecimalPercent(r.hitRate, r.hitStats.hits, r.hitStats.misses)

\* C10 amended: hitRate is hits / (hits + misses) as a percentage with two
\* decimals when hits > 0 (3 hits and 1 miss give 75.00%), and the text 0%
\* whenever hits = 0, also after misses; there is no division by zero.
C10_HitRate ==
    last.op = "getStats" =>
        \A c \in CacheTypes :
            LET r == last.stats[c]
            IN  /\ r.hitStats = hitStats[c]
                /\ IF r.hitStats.hits = 0
                   THEN r.hitRate = <<"0", "%">>
                   ELSE twoDecimalPercent(r.hitRate, r.hitStats.hits, r.hitStats.misses)
                /\ (r.hitStats.hits = 3 /\ r.hitStats.misses = 1)
                     => r.hitRate = <<"7", "5", ".", "0", "0", "%">>

\* getStats has reported a namespace with 3 hits and 1 miss
C10_Witness ==
    /\ last.op = "getStats"
    /\ \E c \in CacheTypes :
         /\ last.stats[c].hitStats.hits = 3
         /\ last.stats[c].hitStats.misses = 1
         /\ last.stats[c].hitRate = <<"7", "5", ".", "0", "0", "%">>

\* the counters of one cache type
Counters == {"hits", "misses", "sets", "deletes", "flushes"}

\* C11 as stated: across every operation other than cleanup, every counter of
\* every namespace changes by 0 or by +1.
C11_CountersStepByOne ==
    [][(last'.op # "cleanup") =>
          \A c \in CacheTypes : \A f \in Counters :
              hitStats'[c][f] - hitStats[c][f] \in {0, 1}]_vars

\* C11 amended: across every operation other than cleanup no counter
\* decreases; every operation other than warmCache changes each counter by 0
\* or +1; warmCache raises sets of its namespace by the number of pairs it
\* stores, at most the number of pairs the loader returned, and changes no
\* other counter.
C11_CountersMonotone ==
    [][(last'.op # "cleanup") =>
          \A c \in CacheTypes : \A f \in Counters :
              LET d == hitStats'[c][f] - hitStats[c][f]
              IN  IF last'.op = "warmCache"
                  THEN IF c = last'.cacheType /\ f = "sets"
                       THEN d \in 0..Len(last'.loaded.items)
                       ELSE d = 0
                  ELSE d \in {0, 1}]_vars

\* a warmCache has stored two pairs and raised sets by 2
C11_Witness ==
    /\ last.op = "warmCache"
    /\ hitStats[last.cacheType].sets = last.pre.hitStats.sets + 2

\* C12: shutdown() raises no error, on the first call and on the second, and
\* the state it leaves is all-released: every sweep timer is stopped and no
\* entry of any namespace is retained or retrievable.
C12_ShutdownReleases ==
    (last.op = "shutdown") =>
        /\ last.threw = ""
        /\ \A c \in CacheTypes :
             /\ ~caches[c].timer
             /\ storedKeys(caches[c].data) = {}
             /\ \A k \in AllKeys : get(M, c, k, now).ret = Null

\* the operation of this step sets, deletes or flushes key k of cache type c
touches(c, k) ==
    \/ /\ last'.op \in {"set", "del", "incrementRateLimit"}
       /\ last'.cacheType = c
       /\ last'.key = k
    \/ /\ last'.op = "invalidatePattern"
       /\ last'.cacheType = c
       /\ contains(k, last'.key)
    \/ last'.op = "invalidateLeaderboards" /\ c = "leaderboards"
    \/ last'.op = "cleanup"
    \/ /\ last'.op = "warmCache"
       /\ last'.cacheType = c
       /\ \E i \in 1..Len(last'.loaded.items) : last'.loaded.items[i].key = k

\* C13: once set(ns,k,v) has returned true a get(ns,k) returns v, and every
\* later step of any handler that is no set, delete or flush of k leaves the
\* result of get(ns,k) as it was for as long as the entry has not expired: a
\* get issued afterwards returns v, never an older or partly written value.
C13_Linearizable ==
    [][\A c \in ActiveTypes : \A k \in AllKeys :
          /\ (/\ last'.op = "set"
               /\ last'.cacheType = c
               /\ last'.key = k
               /\ last'.ret = Bool(TRUE))
                => /\ caches'[c].data[k].v = last'.value
                   /\ get(M', c, k, now').ret = last'.value
          /\ (/\ ~touches(c, k)
               /\ stored(caches[c], k)
               /\ ~expired(caches[c].data[k], now'))
                => /\ caches'[c].data[k] = caches[c].data[k]
                   /\ get(M', c, k, now').ret = get(M, c, k, now).ret
                   /\ get(M', c, k, now').ret = caches[c].data[k].v]_vars

\* a key that was set and read once is read again and returns its value
C13_Witness ==
    /\ last.op = "get"
    /\ onCache
    /\ liveBefore
    /\ last.ret = last.pre.data[last.key].v
    /\ last.pre.hitStats.sets >= 1
    /\ last.pre.hitStats.hits >= 1

\* C14: incrementRateLimit(identifier, ttl) returns the new count, the count
\* stored before (0 if the key was absent or expired) plus 1, and that count
\* is the value stored under the identifier after the call.
C14_ReturnsNewCount ==
    (last.op = "incrementRateLimit") =>
        LET previous == IF liveBefore THEN last.pre.data[last.key].v.n ELSE 0
        IN  /\ last.ret = Num(previous + 1)
            /\ caches["rateLimit"].data[last.key].v = Num(previous + 1)

\* the expiry time set(ns, k, v, ttl) at time t gives the entry: ttl seconds
\* from t, the namespace's default when no ttl is passed
expiryOf(c, ttl, t) ==
    IF Truthy(ttl) THEN t + ttl.n * 1000 ELSE t + stdTTL(c) * 1000

\* C15: set on a key that is already present replaces the value, restarts
\* the expiry, returns true and raises sets by 1, also when the namespace
\* holds exactly maxKeys entries.
C15_ReplaceAtCapacity ==
    (last.op = "set" /\ onCache /\ last.pre.data[last.key] # NoEntry) =>
        /\ last.threw = ""
        /\ last.ret = Bool(TRUE)
        /\ caches[last.cacheType].data[last.key].v = last.value
        /\ caches[last.cacheType].data[last.key].t
               = expiryOf(last.cacheType, last.ttl, now)
        /\ hitStats[last.cacheType].sets = last.pre.hitStats.sets + 1

\* C16: when the loader passed to warmCache throws or rejects, warmCache
\* raises nothing to its caller and the namespace holds exactly the entries
\* it held before.
C16_LoaderFailure ==
    (last.op = "warmCache" /\ last.loaded.rejects) =>
        /\ last.threw = ""
        /\ caches[last.cacheType].data = last.pre.data
        /\ hitStats[last.cacheType] = last.pre.hitStats

\* the loader of a warmCache on a namespace that holds an entry has failed
C16_Witness ==
    /\ last.op = "warmCache"
    /\ last.loaded.rejects
    /\ storedKeys(last.pre.data) # {}

\* C17: when the loader of warmCache(ns, loader) returns a sequence of
\* {key, value} pairs and the namespace has room for all of them, every pair
\* is stored when warmCache completes: get(ns, key) returns value for each
\* pair, falsy values such as 0 included.
C17_WarmStoresEveryPair ==
    (/\ last.op = "warmCache"
     /\ last.loaded.isArray
     /\ Cardinality(storedKeys(last.pre.data)) + Len(last.loaded.items)
            <= capacity(last.cacheType)) =>
        \A i \in 1..Len(last.loaded.items) :
            get(M, last.cacheType, last.loaded.items[i].key, now).ret
                = last.loaded.items[i].value

\* C18: invalidateLeaderboards removes every entry of the leaderboards
\* namespace, raises its flushes counter by exactly 1 and leaves its other
\* counters, and the entries and counters of every other namespace, as they
\* were.
C18_FlushOneNamespace ==
    [][(last'.op = "invalidateLeaderboards") =>
          /\ last'.threw = ""
          /\ storedKeys(caches'["leaderboards"].data) = {}
          /\ caches'["leaderboards"].keys = 0
          /\ hitStats'["leaderboards"]
                 = [hitStats["leaderboards"] EXCEPT !.flushes = @ + 1]
          /\ \A c \in CacheTypes \ {"leaderboards"} :
                /\ caches'[c] = caches[c]
                /\ hitStats'[c] = hitStats[c]]_vars

\* leaderboards entries have been flushed while the rateLimit namespace
\* holds an entry
C18_Witness ==
    /\ last.op = "invalidateLeaderboards"
    /\ storedKeys(last.pre.data) # {}
    /\ storedKeys(caches["leaderboards"].data) = {}
    /\ storedKeys(caches["rateLimit"].data) # {}

\* C19: del(ns, key) returns 1 and raises deletes by 1 when the key was
\* stored, returns 0 and leaves deletes and every entry as they were when it
\* was not; afterwards the key is absent, every other entry is as before and
\* no other counter has changed.
C19_DelCounts ==
    (last.op = "del" /\ onCache) =>
        LET hs == hitStats[last.cacheType]
            was == last.pre.hitStats
        IN  /\ last.threw = ""
            /\ caches[last.cacheType].data[last.key] = NoEntry
            /\ get(M, last.cacheType, last.key, now).ret = Null
            /\ \A k \in AllKeys \ {last.key} :
                  caches[last.cacheType].data[k] = last.pre.data[k]
            /\ hs = [was EXCEPT !.deletes = hs.deletes]
            /\ IF last.pre.data[last.key] # NoEntry
               THEN last.ret = Num(1) /\ hs.deletes = was.deletes + 1
               ELSE /\ last.ret = Num(0)
                    /\ hs.deletes = was.deletes
                    /\ caches[last.cacheType].data = last.pre.data

\* a stored key has been deleted, the first delete the namespace counts, and
\* the namespace still holds another key
C19_Witness ==
    /\ last.op = "del"
    /\ onCache
    /\ last.pre.data[last.key] # NoEntry
    /\ last.ret = Num(1)
    /\ hitStats[last.cacheType].deletes = 1
    /\ storedKeys(caches[last.cacheType].data) # {}

\* key k of cache type c is stored although its expiry time has passed
expiredStored(c, k) ==
    stored(caches[c], k) /\ expired(caches[c].data[k], now)

\* C20: with a fair sweep timer, an entry whose expiry time has passed is
\* eventually removed from its namespace for as long as the namespace's
\* timer is armed, whether or not a get is ever issued for its key.
C20_ExpiredSwept ==
    \A c \in ActiveTypes : \A k \in AllKeys :
        (expiredStored(c, k) /\ caches[c].timer)
            ~> (~expiredStored(c, k) \/ ~caches[c].timer)

\* the sweep has emptied a namespace that was set and never read, deleted
\* from or flushed
C20_Witness ==
    /\ last.op = "sweep"
    /\ \E c \in ActiveTypes :
         /\ hitStats[c].sets >= 1
         /\ gets[c] = 0
         /\ hitStats[c].deletes = 0
         /\ hitStats[c].flushes = 0
         /\ storedKeys(caches[c].data) = {}
         /\ caches[c].timer

\* the ttl (seconds) an entry is to get: the ttl passed, the namespace's
\* default when none is passed
ttlOrDefault(c, ttl) == IF ttl.ty = "number" THEN ttl.n ELSE stdTTL(c)

\* C21: after set(ns, k, v, ttl) the entry is retrievable before
\* now + (ttl or default) and absent after it, for every ttl a caller can
\* pass, 0 included.
C21_TtlExact ==
    (last.op = "set" /\ onCache /\ last.ret = Bool(TRUE)) =>
        \A i \in 0..(MaxStdTTL + 1) :
            LET u == now + i * 1000
                expiresAt == now + ttlOrDefault(last.cacheType, last.ttl) * 1000
            IN  /\ (u < expiresAt)
                     => get(M, last.cacheType, last.key, u).ret = last.value
                /\ (u > expiresAt)
                     => get(M, last.cacheType, last.key, u).ret = Null

\* C23: a get of a present key that holds an empty or falsy value (null, 0,
\* false, the empty string) is not reported to the caller the way a miss is:
\* it does not return what get returns for an absent key, null.
C23_PresenceDistinguished ==
    (/\ last.op = "get"
     /\ onCache
     /\ liveBefore
     /\ last.pre.data[last.key].v # Undefined
     /\ ~Truthy(last.pre.data[last.key].v)) =>
        /\ last.threw = ""
        /\ last.ret # Null

\* C22: two calls of the same wrapper with different argument tuples never
\* compose the same key string.
C22_KeysCollisionFree ==
    (/\ Len(reqs) = 2
     /\ reqs[1].key # notComposed
     /\ reqs[2].key # notComposed
     /\ reqs[1].args # reqs[2].args) => reqs[1].key # reqs[2].key

\* C24: a getPlayer that starts after a mutation of the wallet has responded
\* is never answered from a cache entry holding a row older than that
\* mutation's write.
C24_NoStalePlayer ==
    \A i \in DOMAIN reqs :
        (/\ reqs[i].op = "getPlayer"
         /\ reqs[i].pc = "done"
         /\ reqs[i].res.cached) => reqs[i].res.data.n >= reqs[i].floor

\* C26: a request whose handler detected a missing or already finished
\* resource is answered with the status and error code of the error raised
\* at the detection, and an endSession request for a session id without a
\* row is answered with NotFoundError (404, NOT_FOUND).
C26_SpecificError ==
    \A i \in DOMAIN reqs :
        /\ (reqs[i].pc = "done" /\ reqs[i].thrown.statusCode # 0) =>
               /\ reqs[i].res.statusCode = reqs[i].thrown.statusCode
               /\ reqs[i].res.errorCode = reqs[i].thrown.errorCode
        /\ (/\ reqs[i].op = "endSession"
            /\ reqs[i].pc = "done"
            /\ ~db.game_sessions[reqs[i].id].row) =>
               /\ reqs[i].res.statusCode = 404
               /\ reqs[i].res.errorCode = "NOT_FOUND"

\* while this.db is null no controller request gets past its first query: it
\* is answered with 400 or 500, and neither the tables nor the caches' data
\* change
noQueryReturns ==
    /\ db.controller.db = null
    /\ \A i \in DOMAIN reqs :
          /\ reqs[i].pc \in {"start", "db.get", "db.run", "done"}
          /\ reqs[i].pc = "done" => reqs[i].res.statusCode \in {400, 500}
    /\ \A c \in CacheTypes : \A k \in StoreKeys : caches[c].data[k] = NoEntry

\* C25: for every session, at most one endSession request has its
\* updatePlayerStatistics applied to the player's totals.
C25_StatsAddedOnce ==
    \A s \in SessionIds :
        Cardinality({i \in DOMAIN reqs : /\ reqs[i].op = "endSession"
                                          /\ reqs[i].id = s
                                          /\ reqs[i].wrote = 1}) <= 1

\* C30: once an endSession for a session id has responded with success,
\* the sessions cache stores no entry under session:{id}, whatever
\* updateSession requests for the id run concurrently or later.
C30_EndedSessionNotCached ==
    \A s \in SessionIds :
        endedBy(s) # {} => ~stored(caches["sessions"], sessionKey(s))

\* the unlockAchievement requests for a pair that have responded with success
unlockedBy(id) ==
    {k \in DOMAIN reqs : /\ reqs[k].op = "unlockAchievement"
                         /\ reqs[k].id = id
                         /\ reqs[k].pc = "done"
                         /\ reqs[k].res.statusCode = 200}

\* C29: for every wallet and achievement, player_achievements holds at most
\* one row and at most one unlockAchievement request has responded with
\* success.
C29_UnlockedOnce ==
    \A w \in Wallets, a \in AchievementIds :
        /\ Cardinality(unlockRows(db, w, a)) <= 1
        /\ Cardinality(unlockedBy(<<w, a>>)) <= 1

\* the requests of request i's client made in the window that ends with
\* request i, request i included
inWindow(i) ==
    {j \in 1..i : /\ reqs[j].ip = reqs[i].ip
                  /\ reqs[j].at >= reqs[i].at - requestWindow * 1000}

\* C27: a request is rejected with 429 only if its client has made more
\* than the limit of requests within the preceding window.
C27_RejectsOnlyAboveLimit ==
    \A i \in DOMAIN reqs :
        reqs[i].statusCode = 429 => Cardinality(inWindow(i)) > requestLimit

\* the requests of request i's client admitted before request i
admittedBefore(i) ==
    {j \in 1..(i - 1) : reqs[j].ip = reqs[i].ip /\ reqs[j].statusCode = 200}

C31_EndedProgressFrozen ==
    [][\A s \in SessionIds :
          db.game_sessions[s].completion_status # "in_progress" =>
              db'.game_sessions[s].score_earned = db.game_sessions[s].score_earned]_vars

\* C32: a getPlayerStats that starts after a deletePlayer or resetProgress
\* of the wallet has responded with success is never answered from a
\* statistics entry computed from a row older than that mutation's write.
C32_NoStaleStats ==
    \A i \in DOMAIN reqs :
        (/\ reqs[i].op = "getPlayerStats"
         /\ reqs[i].pc = "done"
         /\ reqs[i].res.cached) => reqs[i].res.data.n >= reqs[i].floor

\* C33: after cleanup() every namespace holds no entry and every counter
\* of every namespace is 0.
C33_CleanupResets ==
    (last.op = "cleanup") =>
        /\ last.threw = ""
        /\ \A c \in CacheTypes :
             /\ storedKeys(caches[c].data) = {}
             /\ caches[c].keys = 0
             /\ hitStats[c] = noStats

\* C33 witness: cleanup() was called on a manager that held an entry and
\* had non-zero counters in two namespaces.
C33_Witness ==
    /\ last.op = "cleanup"
    /\ reqs # noReqs
    /\ storedKeys(reqs[1].before.caches["leaderboards"].data) # {}
    /\ reqs[1].before.hitStats["leaderboards"].sets > 0
    /\ reqs[1].before.hitStats["rateLimit"] # noStats

\* C34: get, set, del and invalidatePattern on a namespace leave the
\* entries and the counters of every other namespace as they were, and
\* invalidatePattern leaves the counters of its own namespace as they were.
C34_NamespaceIsolation ==
    [][(/\ last'.op \in {"get", "set", "del", "invalidatePattern"}
        /\ last'.cacheType \in CacheTypes) =>
          /\ \A b \in CacheTypes \ {last'.cacheType} :
                /\ caches'[b] = caches[b]
                /\ hitStats'[b] = hitStats[b]
          /\ (last'.op = "invalidatePattern") =>
                hitStats'[last'.cacheType] = hitStats[last'.cacheType]]_vars

\* C34 witness: invalidatePattern has removed an entry of leaderboards
\* while rateLimit held an entry and had counted operations.
C34_Witness ==
    /\ last.op = "invalidatePattern"
    /\ last.cacheType = "leaderboards"
    /\ storedKeys(last.pre.data) # storedKeys(caches["leaderboards"].data)
    /\ storedKeys(caches["rateLimit"].data) # {}
    /\ hitStats["rateLimit"] # noStats
    /\ hitStats["leaderboards"] = last.pre.hitStats

\* C35: a connect() call opens the database at most maxConnectionAttempts
\* times, each time after the first at least one retryDelay after the
\* failure before it, is rejected only once connectionAttempts has reached
\* maxConnectionAttempts, is resolved only by a successful open, and is
\* eventually resolved or rejected.
C35_ConnectTerminates ==
    /\ [](\A i \in DOMAIN reqs :
            reqs[i].op = "connect" =>
                /\ reqs[i].opens <= maxConnectionAttempts
                /\ reqs[i].opens <= reqs[i].failures + 1
                /\ reqs[i].pc = "rejected" =>
                      /\ db.connectionAttempts >= maxConnectionAttempts
                      /\ reqs[i].failures = reqs[i].opens)
    /\ [][\A i \in DOMAIN reqs :
            /\ reqs'[i].opens > reqs[i].opens => now' >= reqs[i].due
            /\ (reqs[i].op = "connect" /\ reqs[i].pc # "resolved"
                   /\ reqs'[i].pc = "resolved") => db'.isConnected]_vars
    /\ \A i \in 1..MaxConnects :
          (i \in DOMAIN reqs /\ reqs[i].op = "connect")
              ~> (i \in DOMAIN reqs /\ reqs[i].pc \in {"resolved", "rejected"})

\* C35 witness: the first connect() call was rejected after opening the
\* database maxConnectionAttempts times, retryDelay apart.
C35_Witness ==
    /\ reqs # noReqs
    /\ reqs[1].op = "connect"
    /\ reqs[1].pc = "rejected"
    /\ reqs[1].opens = maxConnectionAttempts
    /\ reqs[1].failures = maxConnectionAttempts
    /\ now = reqs[1].at + (maxConnectionAttempts - 1) * retryDelay

-----------------------------------------------------------------------------
(* WalletConnection (web3/wallet-connection.js).  db holds the fields of the
   object, the 'kaboom_wallet_session' item of localStorage and the provider
   globals of the page (window); reqs holds the calls, each at the await it
   is suspended on.  Two of the eight supported wallets and two public keys
   are kept.  A provider object is named by the global that holds it. *)

undefined == "undefined"

supportedWallets == {"phantom", "solflare"}

\* a global of the page: absent, or a provider object with its flags
noProvider == [defined |-> FALSE, isPhantom |-> FALSE, isSolflare |-> FALSE]

provider(isPhantom, isSolflare) ==
    [defined |-> TRUE, isPhantom |-> isPhantom, isSolflare |-> isSolflare]

\* the globals connectWallet reads
noWindow ==
    [solana |-> noProvider, solflare |-> noProvider, solflareWallet |-> noProvider,
     solanaSolflare |-> noProvider, phantom |-> noProvider]

\* the pages: no extension; Phantom; Phantom (with window.phantom) and
\* Solflare as window.solflare; Phantom and Solflare as window.solflareWallet;
\* one window.solana that sets isPhantom and isSolflare; Solflare as
\* window.solflareWallet alone
Windows ==
    {noWindow,
     [noWindow EXCEPT !.solana = provider(TRUE, FALSE)],
     [noWindow EXCEPT !.solana = provider(TRUE, FALSE),
                      !.phantom = provider(FALSE, FALSE),
                      !.solflare = provider(FALSE, TRUE)],
     [noWindow EXCEPT !.solana = provider(TRUE, FALSE),
                      !.solflareWallet = provider(FALSE, FALSE)],
     [noWindow EXCEPT !.solana = provider(TRUE, TRUE)],
     [noWindow EXCEPT !.solflareWallet = provider(FALSE, FALSE)]}

\* supportedWallets[walletType].check()
check(window, walletType) ==
    IF walletType = "phantom"
    THEN window.solana.defined /\ window.solana.isPhantom
    ELSE \/ window.solflare.defined /\ window.solflare.isSolflare
         \/ window.solflareWallet.defined
         \/ window.solanaSolflare.defined
         \/ window.solana.defined /\ window.solana.isSolflare
         \/ window.solana.defined /\ ~window.solana.isPhantom
                /\ window.solflare.defined

\* walletType === 'solflare' on a page with Phantom's window.solana and none
\* of window.solflare, window.solflareWallet, window.solanaSolflare
onlyPhantomDetected(window, walletType) ==
    /\ walletType = "solflare"
    /\ window.solana.defined /\ window.solana.isPhantom
    /\ ~window.solflare.defined
    /\ ~window.solflareWallet.defined
    /\ ~window.solanaSolflare.defined

\* window[walletType] || window.solana: the object is named by its global
walletObject(window, walletType) ==
    IF window[walletType].defined THEN "window." \o walletType
    ELSE IF window.solana.defined THEN "window.solana"
    ELSE undefined

WalletTypeArgs == supportedWallets \cup {null, "other"}

PublicKeys == {"pk1", "pk2"}

sessionLifetime == 86400000

noSession == [present |-> FALSE, publicKey |-> null, signature |-> null,
              timestamp |-> 0, walletType |-> null]

\* Uint8Array.prototype.toString / String.prototype.toString of a signature
signatureString(signature) ==
    CASE signature = "sig" -> "sig.toString()"
      [] signature = "dummy" -> "dummy.toString()"
      [] OTHER -> signature

newWalletConnection(window, session) ==
    [wallet |-> null, publicKey |-> null, isConnected |-> FALSE,
     userSignature |-> null, selectedWallet |-> null,
     session |-> session, window |-> window]

connectionState(d) ==
    [wallet |-> d.wallet, publicKey |-> d.publicKey,
     selectedWallet |-> d.selectedWallet, isConnected |-> d.isConnected,
     userSignature |-> d.userSignature]

\* the connection state is recorded for connectWallet calls only
noState == connectionState(newWalletConnection(noWindow, noSession))

walletCall(op, walletType) ==
    [op |-> op, walletType |-> walletType, pc |-> "start",
     signature |-> null, isValid |-> FALSE,
     before |-> IF op = "connectWallet" THEN connectionState(db) ELSE noState]

\* the record of the call that returned last
returned(c, ret, d) ==
    [op |-> c.op, walletType |-> c.walletType, ret |-> ret,
     before |-> c.before,
     after |-> IF c.op = "connectWallet" THEN connectionState(d) ELSE noState]

suspended(i, op, pc) ==
    /\ i \in DOMAIN reqs
    /\ reqs[i].op = op
    /\ reqs[i].pc = pc

without(seq, i) == [j \in 1..(Len(seq) - 1) |-> IF j < i THEN seq[j] ELSE seq[j + 1]]

getAvailableWallets(d) == {w \in supportedWallets : check(d.window, w)}

\* every path of verifySignature returns true
verifySignature(message, signature, publicKey) == TRUE

\* publicKey.toString() or userSignature.toString() of null throws inside the
\* try block and nothing is stored
storeAuthenticationSession(d, t) ==
    IF d.publicKey = null \/ d.userSignature = null THEN d
    ELSE [d EXCEPT !.session =
             [present |-> TRUE, publicKey |-> d.publicKey,
              signature |-> signatureString(d.userSignature),
              timestamp |-> t, walletType |-> d.selectedWallet]]

\* connectWallet up to `await walletConfig.connect()`
ConnectWalletCall(walletType) ==
    /\ nops < MaxCalls
    /\ nops' = nops + 1
    /\ LET available == getAvailableWallets(db)
           chosen == IF walletType # null THEN walletType
                     ELSE IF Cardinality(available) = 1
                          THEN CHOOSE w \in available : TRUE
                          ELSE null
           c == walletCall("connectWallet", chosen)
       IN  IF walletType = null /\ Cardinality(available) # 1
           THEN last' = returned(c, "false", db) /\ reqs' = reqs
           ELSE IF db.isConnected
           THEN last' = returned(c, "true", db) /\ reqs' = reqs
           ELSE IF chosen \notin supportedWallets
           THEN last' = returned(c, "false", db) /\ reqs' = reqs
           ELSE IF ~check(db.window, chosen)
           THEN last' = returned(c, "false", db) /\ reqs' = reqs
           ELSE IF onlyPhantomDetected(db.window, chosen)
           THEN last' = returned(c, "false", db) /\ reqs' = reqs
           ELSE last' = last /\ reqs' = Append(reqs, [c EXCEPT !.pc = "connect"])
    /\ UNCHANGED <<caches, hitStats, now, warm, gets, callers, db>>

\* walletConfig.connect() settles; response is "rejected", null (no public
\* key in the response) or the public key.  Solflare's connect throws for a
\* response without public key, Phantom's hands it on.  this.wallet becomes
\* window[walletType] || window.solana
ConnectWalletConnected(i, response) ==
    /\ suspended(i, "connectWallet", "connect")
    /\ IF response = "rejected"
              \/ (response = null /\ reqs[i].walletType = "solflare")
       THEN /\ db' = db
            /\ last' = returned(reqs[i], "false", db')
            /\ reqs' = without(reqs, i)
       ELSE IF response = null
       THEN /\ db' = [db EXCEPT !.wallet = walletObject(db.window, reqs[i].walletType)]
            /\ last' = returned(reqs[i], "false", db')
            /\ reqs' = without(reqs, i)
       ELSE /\ db' = [db EXCEPT !.wallet = walletObject(db.window, reqs[i].walletType),
                                !.publicKey = response,
                                !.selectedWallet = reqs[i].walletType]
            /\ last' = last
            /\ reqs' = [reqs EXCEPT
                           ![i].pc = IF db.publicKey # null /\ db.publicKey # response
                                     THEN "changed" ELSE "sign"]
    /\ UNCHANGED <<caches, hitStats, now, warm, gets, nops, callers>>

\* `await this.handleWalletChange(newWalletAddress)` returns (it catches its
\* errors)
ConnectWalletChanged(i) ==
    /\ suspended(i, "connectWallet", "changed")
    /\ reqs' = [reqs EXCEPT ![i].pc = "sign"]
    /\ UNCHANGED <<caches, hitStats, now, last, warm, gets, nops, callers, db>>

\* walletConfig.signMessage() settles: a signature, a rejection, a response
\* without signature, or the 'toBase58 is not a function' error that is
\* answered with a dummy signature.  With a signature the call goes on to
\* `await this.verifySignature(...)`: verifySignature runs to its return
\* value with the public key of this moment, and the call is suspended
ConnectWalletSigned(i, outcome) ==
    /\ suspended(i, "connectWallet", "sign")
    /\ LET signature == CASE outcome = "signed" -> "sig"
                          [] outcome = "toBase58" -> "dummy"
                          [] OTHER -> null
       IN  IF signature = null
           THEN /\ last' = returned(reqs[i], "false", db)
                /\ reqs' = without(reqs, i)
           ELSE /\ last' = last
                /\ reqs' = [reqs EXCEPT
                               ![i].pc = "verify",
                               ![i].signature = signature,
                               ![i].isValid =
                                   verifySignature("message", signature, db.publicKey)]
    /\ UNCHANGED <<caches, hitStats, now, warm, gets, nops, callers, db>>

\* the await of verifySignature resumes: an invalid signature ends the call,
\* a valid one marks the object as connected, keeps the signature and stores
\* the session, up to `await this.connection.getBalance(...)`
ConnectWalletVerified(i) ==
    /\ suspended(i, "connectWallet", "verify")
    /\ IF ~reqs[i].isValid
       THEN /\ db' = db
            /\ last' = returned(reqs[i], "false", db')
            /\ reqs' = without(reqs, i)
       ELSE /\ db' = storeAuthenticationSession(
                         [db EXCEPT !.isConnected = TRUE,
                                    !.userSignature = reqs[i].signature], now)
            /\ last' = last
            /\ reqs' = [reqs EXCEPT ![i].pc = "finish"]
    /\ UNCHANGED <<caches, hitStats, now, warm, gets, nops, callers>>

\* the rest of connectWallet (balance, handleWalletChange, UI, player data)
\* writes none of the connection fields
ConnectWalletFinish(i) ==
    /\ suspended(i, "connectWallet", "finish")
    /\ last' = returned(reqs[i], "true", db)
    /\ reqs' = without(reqs, i)
    /\ UNCHANGED <<caches, hitStats, now, warm, gets, nops, callers, db>>

disconnected(d) ==
    [d EXCEPT !.wallet = null, !.publicKey = null, !.isConnected = FALSE,
              !.userSignature = null, !.selectedWallet = null,
              !.session = noSession]

\* disconnectWallet up to `await walletConfig.disconnect()`, or to its end
\* when there is no wallet to disconnect
DisconnectWalletCall ==
    /\ nops < MaxCalls
    /\ nops' = nops + 1
    /\ LET c == walletCall("disconnectWallet", null)
       IN  IF db.wallet \notin {null, undefined} /\ db.selectedWallet # null
              /\ db.selectedWallet \in supportedWallets
           THEN /\ db' = db
                /\ last' = last
                /\ reqs' = Append(reqs, [c EXCEPT !.pc = "disconnect"])
           ELSE /\ db' = disconnected(db)
                /\ last' = returned(c, "undefined", db')
                /\ reqs' = reqs
    /\ UNCHANGED <<caches, hitStats, now, warm, gets, callers>>

\* walletConfig.disconnect() settles
DisconnectWalletResume(i, ok) ==
    /\ suspended(i, "disconnectWallet", "disconnect")
    /\ db' = IF ok THEN disconnected(db) ELSE db
    /\ last' = returned(reqs[i], "undefined", db')
    /\ reqs' = without(reqs, i)
    /\ UNCHANGED <<caches, hitStats, now, warm, gets, nops, callers>>

\* checkAuthenticationStatus has no await
CheckAuthenticationStatus ==
    /\ nops < MaxCalls
    /\ nops' = nops + 1
    /\ LET c == walletCall("checkAuthenticationStatus", null)
           session == db.session
       IN  IF db.wallet \in {null, undefined} \/ db.publicKey = null
              \/ ~session.present
           THEN /\ db' = db
                /\ last' = returned(c, "false", db')
           ELSE IF \/ now > session.timestamp + sessionLifetime
                   \/ session.publicKey # db.publicKey
                   \/ (session.walletType # null
                          /\ session.walletType # db.selectedWallet)
           THEN /\ db' = [db EXCEPT !.session = noSession]
                /\ last' = returned(c, "false", db')
           ELSE /\ db' = [db EXCEPT !.isConnected = TRUE,
                                    !.userSignature = session.signature,
                                    !.selectedWallet = session.walletType]
                /\ last' = returned(c, "true", db')
    /\ UNCHANGED <<caches, hitStats, now, warm, gets, callers, reqs>>

\* more than 24 hours pass
SessionLifetimePasses ==
    /\ now < MaxDays * (sessionLifetime + 1)
    /\ now' = now + sessionLifetime + 1
    /\ UNCHANGED <<caches, hitStats, last, warm, gets, nops, callers, db, reqs>>

\* a session of an earlier page load may still be in localStorage
InitWallet ==
    /\ Constructed
    /\ \E window \in Windows :
       \E session \in {noSession,
                       [present |-> TRUE, publicKey |-> "pk1",
                        signature |-> signatureString("sig"),
                        timestamp |-> 0, walletType |-> "phantom"]} :
           db = newWalletConnection(window, session)
    /\ reqs = noReqs

NextWallet ==
    \/ \E walletType \in WalletTypeArgs : ConnectWalletCall(walletType)
    \/ \E i \in 1..MaxCalls : \E response \in PublicKeys \cup {null, "rejected"} :
           ConnectWalletConnected(i, response)
    \/ \E i \in 1..MaxCalls : ConnectWalletChanged(i)
    \/ \E i \in 1..MaxCalls :
       \E outcome \in {"signed", "rejected", "invalid", "toBase58"} :
           ConnectWalletSigned(i, outcome)
    \/ \E i \in 1..MaxCalls : ConnectWalletVerified(i)
    \/ \E i \in 1..MaxCalls : ConnectWalletFinish(i)
    \/ DisconnectWalletCall
    \/ \E i \in 1..MaxCalls : \E ok \in BOOLEAN : DisconnectWalletResume(i, ok)
    \/ CheckAuthenticationStatus
    \/ SessionLifetimePasses

SpecWallet == InitWallet /\ [][NextWallet]_vars

\* C36: whenever isConnected is true, publicKey and userSignature are
\* non-null, whatever connectWallet, disconnectWallet and
\* checkAuthenticationStatus calls have been made.
C36_ConnectedHasKeyAndSignature ==
    db.isConnected => (db.publicKey # null /\ db.userSignature # null)

\* C37: when a connectWallet call returns false, wallet, publicKey,
\* selectedWallet, isConnected and userSignature have the values they had
\* before the call.
C37_FailedConnectUnchanged ==
    (last.op = "connectWallet" /\ last.ret = "false")
        => last.after = last.before

====
